---- MODULE Spec2Model ----
(***************************************************************************)
(* Model of the cajon player's audio-trigger pipeline:                     *)
(*   AudioManager        (src/src/js/audio-manager.js)                     *)
(*   InputHandler        (src/src/js/input-handler.js)                     *)
(*   TriggerZoneManager  (src/unnamed/part_003)                            *)
(*   App.init            (src/src/js/app.js)                               *)
(*                                                                         *)
(* JavaScript runs one task at a time.  A step of the model is either one  *)
(* listener callback run up to its first suspension (await), one platform  *)
(* promise settlement, or one microtask (the continuation of an await).    *)
(* While the microtask queue is not empty no new task is started.          *)
(***************************************************************************)
EXTENDS Integers, Sequences, FiniteSets, TLC

VARIABLES
    zm,          \* TriggerZoneManager: the zone configs and the zoneByKey index
    appPc,       \* position of App.init: "preloading" | "ready"
    load,        \* position of each _loadSound call, by path
    am,          \* AudioManager fields
    ih,          \* InputHandler fields (exists = constructed and initialized)
    ctxState,    \* audioContext.state, owned by the platform
    resumes,     \* the promises returned by audioContext.resume(), in call order
    nodes,       \* the AudioBufferSourceNodes created by playSound, in order
    tasks,       \* the listener invocations that reached an await, in start order
    microtasks,  \* the microtask queue: ids of tasks whose await has settled
    log,         \* the calls issued so far, in program order
    ev,          \* the DOM event being dispatched / last dispatched
    nEvents,     \* number of user events (input, focus, blur, key recording) so far
    flash,       \* per zone: the element's 'active' class and its pending revert timers
    rec          \* App's key recording: popup, keydown handlers, close timers

vars == <<zm, appPc, load, am, ih, ctxState, resumes, nodes, tasks, microtasks, log, ev, nEvents,
          flash, rec>>

----------------------------------------------------------------------------
(* Bounds of the model *)

MaxEvents == 2

----------------------------------------------------------------------------
(* Static configuration: zone-config.js and the page's DOM *)

Zones == {"kick", "snare"}

SoundFileOf(z) == IF z = "kick" THEN "kick.mp3" ELSE "snare.mp3"

KeyboardKeyOf(z) == IF z = "kick" THEN "q" ELSE "w"

\* zone.volume is absent from zone-config.js; <<>> stands for undefined
ZONE_CONFIG == [z \in Zones |-> [keyboardKey |-> KeyboardKeyOf(z), volume |-> <<>>]]

\* the order of the zones in the configuration array
ZoneOrder == <<"kick", "snare">>

\* volumes are counted in hundredths: 100 is the multiplier 1.0
Unity == 100

\* SOUND_FILES = [...new Set(ZONE_CONFIG.map(zone => zone.soundFile))]
SOUND_FILES == {SoundFileOf(z) : z \in Zones}

\* String.prototype.toLowerCase on the keys the model uses
ToLowerCase(k) ==
    CASE k = "Q" -> "q"
      [] k = "W" -> "w"
      [] k = "X" -> "x"
      [] k = "Shift" -> "shift"
      [] k = "LEFTSHIFT" -> "leftshift"
      [] OTHER -> k

\* The DOM: body > { other, container > { zone elements, img }, hintbox > keys > items > span }
ZoneEl(z) == "el:" \o z
HintItem(z) == "hint:" \o z
HintSpan(z) == "hintkey:" \o z

Elements ==
    {"body", "other", "container", "img", "hintbox", "keys"}
        \cup {ZoneEl(z) : z \in Zones}
        \cup {HintItem(z) : z \in Zones}
        \cup {HintSpan(z) : z \in Zones}

NoElement == "null"

parentElement(e) ==
    CASE e = "body" -> NoElement
      [] e \in {"other", "container", "hintbox"} -> "body"
      [] e = "img" -> "container"
      [] e = "keys" -> "hintbox"
      [] e \in {ZoneEl(z) : z \in Zones} -> "container"
      [] e \in {HintItem(z) : z \in Zones} -> "keys"
      [] e \in {HintSpan(z) : z \in Zones} -> HintItem(CHOOSE z \in Zones : e = HintSpan(z))
      [] OTHER -> NoElement

\* element.classList.contains('keyboard-key-item')
IsKeyboardKeyItem(e) == e \in {HintItem(z) : z \in Zones}

NoZone == "none"

\* element.dataset.zoneId ("none" when the attribute is absent)
DatasetZoneId(e) ==
    IF \E z \in Zones : e = ZoneEl(z) \/ e = HintItem(z)
    THEN CHOOSE z \in Zones : e = ZoneEl(z) \/ e = HintItem(z)
    ELSE NoZone

----------------------------------------------------------------------------
(* TriggerZoneManager lookups *)

getZoneById(id) == IF id \in Zones THEN id ELSE NoZone

\* the zoneByKey index built by the constructor: key.toLowerCase() -> zone for
\* every zone with a key, a later zone of the array replacing an earlier one
ZoneByKeyOf(zones) ==
    LET keyed == {i \in DOMAIN ZoneOrder : zones[ZoneOrder[i]].keyboardKey # ""}
        keyAt(i) == ToLowerCase(zones[ZoneOrder[i]].keyboardKey)
    IN  [k \in {keyAt(i) : i \in keyed} |->
            ZoneOrder[CHOOSE i \in keyed :
                         /\ keyAt(i) = k
                         /\ \A j \in keyed : keyAt(j) = k => j <= i]]

\* new TriggerZoneManager({zones})
ZoneManagerOf(zones) == [zones |-> zones, zoneByKey |-> ZoneByKeyOf(zones)]

\* a lookup that compares the key as typed (fault variant for C17)
ZoneForKeyCaseSensitive(m, key) ==
    IF key \in DOMAIN m.zoneByKey THEN m.zoneByKey[key] ELSE NoZone

\* zoneByKey.get(key.toLowerCase()) || null, on the manager state m
ZoneForKey(m, key) ==
    IF ToLowerCase(key) \in DOMAIN m.zoneByKey THEN m.zoneByKey[ToLowerCase(key)] ELSE NoZone

getZoneByKey(key) == ZoneForKey(zm, key)

\* rebinding that installs the new key and leaves the zone's previous key in
\* the index (fault variant for C16)
updateZoneKeyKeepOld(m, zoneId, newKey) ==
    IF zoneId \notin Zones THEN m
    ELSE LET k == ToLowerCase(newKey)
         IN  [zones |-> [m.zones EXCEPT ![zoneId].keyboardKey = newKey],
              zoneByKey |-> [x \in DOMAIN m.zoneByKey \cup {k} |->
                                IF x = k THEN zoneId ELSE m.zoneByKey[x]]]

\* updateZoneKey(zoneId, newKey): the zone's old key leaves the index, newKey is
\* taken from whatever other zone holds it, and newKey is installed for the zone
updateZoneKey(m, zoneId, newKey) ==
    IF zoneId \notin Zones THEN m
    ELSE LET k == ToLowerCase(newKey)
             zones1 == [z \in Zones |->
                          IF z = zoneId THEN [m.zones[z] EXCEPT !.keyboardKey = newKey]
                          ELSE IF ToLowerCase(m.zones[z].keyboardKey) = k
                               THEN [m.zones[z] EXCEPT !.keyboardKey = ""]
                               ELSE m.zones[z]]
         IN  ZoneManagerOf(zones1)

\* zone.volume !== undefined ? zone.volume : 1.0
BaseVolume(z) == IF zm.zones[z].volume = <<>> THEN Unity ELSE zm.zones[z].volume[1]

RECURSIVE WalkDatasetZone(_)
\* the loop of getZoneByElement: up from the element until the container
WalkDatasetZone(current) ==
    IF current = NoElement \/ current = "container" THEN NoZone
    ELSE IF DatasetZoneId(current) # NoZone THEN getZoneById(DatasetZoneId(current))
    ELSE WalkDatasetZone(parentElement(current))

getZoneByElement(element) ==
    IF \E z \in Zones : element = ZoneEl(z)
    THEN CHOOSE z \in Zones : element = ZoneEl(z)
    ELSE WalkDatasetZone(element)

RECURSIVE WalkKeyItem(_)
\* the first loop of handlePointerDown: up from the target until document.body
WalkKeyItem(clickedElement) ==
    IF clickedElement = NoElement \/ clickedElement = "body" THEN NoZone
    ELSE IF IsKeyboardKeyItem(clickedElement)
            /\ DatasetZoneId(clickedElement) # NoZone
            /\ getZoneById(DatasetZoneId(clickedElement)) # NoZone
         THEN getZoneById(DatasetZoneId(clickedElement))
    ELSE WalkKeyItem(parentElement(clickedElement))

\* An element is inside root when root is the element or one of its ancestors
RECURSIVE Within(_, _)
Within(e, root) ==
    IF e = NoElement THEN FALSE
    ELSE IF e = root THEN TRUE
    ELSE Within(parentElement(e), root)

----------------------------------------------------------------------------
(* The mutable world, passed through the synchronous call chains *)

W == [am |-> am, ih |-> ih, ctxState |-> ctxState, resumes |-> resumes,
      nodes |-> nodes, tasks |-> tasks, microtasks |-> microtasks, log |-> log,
      flash |-> flash]

Set(w) ==
    /\ am' = w.am
    /\ ih' = w.ih
    /\ ctxState' = w.ctxState
    /\ resumes' = w.resumes
    /\ nodes' = w.nodes
    /\ tasks' = w.tasks
    /\ microtasks' = w.microtasks
    /\ log' = w.log
    /\ flash' = w.flash

\* one entry of the call log
Logged(w, op, t, arg) ==
    [w EXCEPT !.log = Append(@, [op |-> op, task |-> t, arg |-> arg, n |-> 0])]

\* no zone element carries the 'active' class and no revert timer is pending
NoFlash == [z \in Zones |-> [active |-> FALSE, timers |-> 0]]

\* an activateZone that adds the class and leaves its removal to a later
\* event (fault variant for C33)
activateZoneNoTimer(w, t, zoneId) ==
    IF zoneId \notin Zones THEN Logged(w, "activate", t, zoneId)
    ELSE Logged([w EXCEPT !.flash[zoneId].active = TRUE], "activate", t, zoneId)

\* TriggerZoneManager.activateZone(zoneId): classList.add('active') and a
\* 100 ms timer that removes the class
activateZone(w, t, zoneId) ==
    IF zoneId \notin Zones THEN Logged(w, "activate", t, zoneId)
    ELSE Logged([w EXCEPT !.flash[zoneId] = [active |-> TRUE, timers |-> @.timers + 1]],
                "activate", t, zoneId)

\* the listeners App.init registers on the AudioManager (app.js 54-60), none
\* of them called yet
AppListeners ==
    <<[event |-> "progress", throws |-> FALSE, calls |-> 0],
      [event |-> "error", throws |-> FALSE, calls |-> 0]>>

\* the same listeners once both sounds have loaded
AppListenersLoaded ==
    <<[event |-> "progress", throws |-> FALSE, calls |-> 2],
      [event |-> "error", throws |-> FALSE, calls |-> 0]>>

\* a forEach that calls the listener bare: what it throws leaves emit (fault
\* variant for C39)
CallListenerUnguarded(l) == IF l.throws THEN "thrown" ELSE "returned"

\* emit lines 377-381: the callback is called inside try/catch, and what it
\* throws is logged with console.error
CallListener(l) == IF l.throws THEN "caught" ELSE "returned"

\* whether the call emit(event, ...) returns or throws to its caller
EmitOutcome(w, event) ==
    IF \E k \in DOMAIN w.am.listeners :
          w.am.listeners[k].event = event /\ CallListener(w.am.listeners[k]) = "thrown"
    THEN "thrown" ELSE "returned"

RECURSIVE NotifyListeners(_, _, _)
\* this.listeners[event].forEach(...), from the k-th registered listener on
NotifyListeners(w, k, event) ==
    IF k > Len(w.am.listeners) THEN w
    ELSE IF w.am.listeners[k].event # event THEN NotifyListeners(w, k + 1, event)
    ELSE LET r == CallListener(w.am.listeners[k])
             w1 == [w EXCEPT !.am.listeners[k].calls = @ + 1]
         IN  CASE r = "thrown" -> w1
               [] r = "caught" ->
                    NotifyListeners(Logged(w1, "consoleError", 0, event), k + 1, event)
               [] OTHER -> NotifyListeners(w1, k + 1, event)

\* AudioManager.emit(event, data): data.loaded is kept in n
Emit(w, event, n) ==
    NotifyListeners([w EXCEPT !.log = Append(@, [op |-> "emit", task |-> 0, arg |-> event,
                                                 n |-> n])], 1, event)

SetPc(w, t, pc, res) ==
    [w EXCEPT !.tasks[t].pc = pc, !.tasks[t].res = res]

Enqueue(w, t) == [w EXCEPT !.microtasks = Append(@, t)]

----------------------------------------------------------------------------
(* AudioManager *)

RemoveGestureUnlockListeners(w) ==
    IF ~w.am.autoUnlockAttached THEN w
    ELSE [w EXCEPT !.am.autoUnlockAttached = FALSE]

\* _primeAudioContext: a silent zero-gain node started inside the gesture
PrimeAudioContext(w, t) ==
    Logged([w EXCEPT !.am.scratchBuffer = TRUE], "prime", t, "")

\* an unlockAudioContext that marks the context unlocked as soon as its
\* resume() has resolved, whatever the state reports (fault variant for C29)
UnlockFinishOnResolve(w, needsResume) ==
    RemoveGestureUnlockListeners([w EXCEPT !.am.isContextUnlocked = TRUE])

\* lines 202-210 of unlockAudioContext
UnlockFinish(w, needsResume) ==
    LET unlocked == (w.ctxState = "running") \/ ~needsResume
        w1 == [w EXCEPT !.am.isContextUnlocked = unlocked]
    IN  IF unlocked THEN RemoveGestureUnlockListeners(w1) ELSE w1

\* audioContext.resume(): a new pending promise, stored in _unlockPromise
ResumeCall(w, t) ==
    LET w1 == [w EXCEPT !.resumes = Append(@, [status |-> "pending", waiters |-> <<>>])]
    IN  Logged([w1 EXCEPT !.am.unlockPromise = Len(w1.resumes)], "resume", t, "")

\* an unlockAudioContext that requests resume() first and primes afterwards,
\* for every caller (fault variant for C30)
UnlockAudioContextResumeFirst(w, t, fromGesture) ==
    LET w0 == Logged(w, "unlock", t, IF fromGesture THEN "gesture" ELSE "noGesture")
    IN  IF w0.am.isContextUnlocked THEN [w |-> w0, r |-> "return"]
        ELSE LET needsResume == w0.ctxState \in {"suspended", "interrupted"}
             IN  IF needsResume
                 THEN LET w1 == IF w0.am.unlockPromise = 0 THEN ResumeCall(w0, t) ELSE w0
                          w2 == PrimeAudioContext(w1, t)
                          p  == w2.am.unlockPromise
                          w3 == [w2 EXCEPT !.resumes[p].waiters = Append(@, t),
                                           !.tasks[t].await = p]
                      IN  [w |-> w3, r |-> "await"]
                 ELSE [w |-> UnlockFinish(w0, needsResume), r |-> "return"]

\* an unlockAudioContext without the early return of lines 168-173: a call on
\* an unlocked context goes through the resume protocol again (fault variant
\* for C28)
UnlockAudioContextNoEarlyReturn(w, t, fromGesture) ==
    LET w0 == Logged(w, "unlock", t, IF fromGesture THEN "gesture" ELSE "noGesture")
        needsResume == w0.ctxState \in {"suspended", "interrupted"}
    IN  IF needsResume
        THEN LET w1 == IF fromGesture THEN PrimeAudioContext(w0, t) ELSE w0
                 w2 == IF w1.am.unlockPromise = 0 THEN ResumeCall(w1, t) ELSE w1
                 p  == w2.am.unlockPromise
                 w3 == [w2 EXCEPT !.resumes[p].waiters = Append(@, t),
                                  !.tasks[t].await = p]
             IN  [w |-> w3, r |-> "await"]
        ELSE [w |-> UnlockFinish(w0, needsResume), r |-> "return"]

\* an unlockAudioContext without the _unlockPromise check of line 185: every
\* call on a context that needs resuming calls resume() itself (fault variant
\* for C23)
UnlockAudioContextResumeEach(w, t, fromGesture) ==
    LET w0 == Logged(w, "unlock", t, IF fromGesture THEN "gesture" ELSE "noGesture")
    IN  IF w0.am.isContextUnlocked THEN [w |-> w0, r |-> "return"]
        ELSE LET needsResume == w0.ctxState \in {"suspended", "interrupted"}
             IN  IF needsResume
                 THEN LET w1 == IF fromGesture THEN PrimeAudioContext(w0, t) ELSE w0
                          w2 == ResumeCall(w1, t)
                          p  == w2.am.unlockPromise
                          w3 == [w2 EXCEPT !.resumes[p].waiters = Append(@, t),
                                           !.tasks[t].await = p]
                      IN  [w |-> w3, r |-> "await"]
                 ELSE [w |-> UnlockFinish(w0, needsResume), r |-> "return"]

\* unlockAudioContext up to its await (lines 163-189).  r = "return": the call
\* completed without suspending; r = "await": task t now awaits _unlockPromise.
UnlockAudioContext(w, t, fromGesture) ==
    LET w0 == Logged(w, "unlock", t, IF fromGesture THEN "gesture" ELSE "noGesture")
    IN  IF w0.am.isContextUnlocked THEN [w |-> w0, r |-> "return"]
        ELSE LET needsResume == w0.ctxState \in {"suspended", "interrupted"}
             IN  IF needsResume
                 THEN LET w1 == IF fromGesture THEN PrimeAudioContext(w0, t) ELSE w0
                          w2 == IF w1.am.unlockPromise = 0 THEN ResumeCall(w1, t) ELSE w1
                          p  == w2.am.unlockPromise
                          w3 == [w2 EXCEPT !.resumes[p].waiters = Append(@, t),
                                           !.tasks[t].await = p]
                      IN  [w |-> w3, r |-> "await"]
                 ELSE [w |-> UnlockFinish(w0, needsResume), r |-> "return"]

\* an unlockAudioContext whose catch block rethrows without resetting
\* _unlockPromise (fault variant for C27)
UnlockContinueKeepPromise(w, t) ==
    LET p == w.tasks[t].await
    IN  IF w.resumes[p].status = "rejected"
        THEN [w |-> w, r |-> "throw"]
        ELSE [w |-> UnlockFinish([w EXCEPT !.am.unlockPromise = 0], TRUE), r |-> "ok"]

\* unlockAudioContext after its await (lines 190-211), for a waiter of promise p
UnlockContinue(w, t) ==
    LET p == w.tasks[t].await
        w1 == [w EXCEPT !.am.unlockPromise = 0]
    IN  IF w.resumes[p].status = "rejected"
        THEN [w |-> w1, r |-> "throw"]
        ELSE [w |-> UnlockFinish(w1, TRUE), r |-> "ok"]

isSoundLoaded(w, soundPath) == soundPath \in w.am.loadedSounds

\* a playSound that releases the decoded buffer once it has started a node
\* from it (fault variant for C31)
PlayStartConsumeBuffer(w, t, soundPath) ==
    LET w1 == [w EXCEPT !.nodes = Append(@, [buffer |-> soundPath, state |-> "playing",
                                             gain |-> Unity]),
                        !.am.audioBuffers = @ \ {soundPath}]
    IN  Logged(w1, "start", t, soundPath)

\* a pooled player in place of a fresh node: a playing node of the same sound
\* is stopped and restarted (fault variant for C7)
PlayStartVoiceSteal(w, t, soundPath) ==
    LET stolen == [k \in DOMAIN w.nodes |->
                      IF w.nodes[k].buffer = soundPath /\ w.nodes[k].state = "playing"
                      THEN [w.nodes[k] EXCEPT !.state = "stopped"]
                      ELSE w.nodes[k]]
        w1 == [w EXCEPT !.nodes = Append(stolen, [buffer |-> soundPath, state |-> "playing",
                                                  gain |-> Unity])]
    IN  Logged(w1, "start", t, soundPath)

\* playSound lines 307-337: one new source node, connected straight to the
\* destination (unity gain; playSound has no volume parameter) and started
PlayStart(w, t, soundPath) ==
    LET w1 == [w EXCEPT !.nodes = Append(@, [buffer |-> soundPath, state |-> "playing",
                                             gain |-> Unity])]
    IN  Logged(w1, "start", t, soundPath)

\* playSound with the unlock safety net ahead of the buffer checks (fault
\* variant for C6)
PlaySoundUnlockFirst(w, t, soundPath) ==
    LET w0 == Logged(w, "play", t, soundPath)
    IN  IF ~w0.am.isContextUnlocked \/ w0.ctxState = "suspended"
        THEN LET u == UnlockAudioContext(w0, t, FALSE)
             IN  [w |-> u.w, r |-> u.r]
        ELSE IF soundPath \notin w0.am.audioBuffers
        THEN [w |-> Logged(w0, "playThrow", t, "Sound file not found"), r |-> "throw"]
        ELSE [w |-> PlayStart(w0, t, soundPath), r |-> "ok"]

\* playSound up to its await (lines 288-305)
PlaySound(w, t, soundPath) ==
    LET w0 == Logged(w, "play", t, soundPath)
    IN  IF soundPath \notin w0.am.audioBuffers
        THEN [w |-> Logged(w0, "playThrow", t, "Sound file not found"), r |-> "throw"]
        ELSE IF ~isSoundLoaded(w0, soundPath)
        THEN [w |-> Logged(w0, "playThrow", t, "Sound not yet loaded"), r |-> "throw"]
        ELSE IF ~w0.am.isContextUnlocked \/ w0.ctxState = "suspended"
        THEN LET u == UnlockAudioContext(w0, t, FALSE)
             IN  [w |-> u.w, r |-> u.r]
        ELSE [w |-> PlayStart(w0, t, soundPath), r |-> "ok"]

\* playSound after the await of line 304; res is the outcome of the unlock call
PlayContinue(w, t, res) ==
    IF res = "throw"
    THEN [w |-> Logged(w, "playThrow", t, "unlock rejected"), r |-> "throw"]
    ELSE [w |-> PlayStart(w, t, w.tasks[t].soundFile), r |-> "ok"]

----------------------------------------------------------------------------
(* InputHandler *)

NewTask(w, kind, zone, volume) ==
    [w EXCEPT !.tasks = Append(@, [kind |-> kind, zone |-> zone, volume |-> volume,
                                   soundFile |-> IF zone = NoZone THEN "" ELSE SoundFileOf(zone),
                                   pc |-> "run", res |-> "", await |-> 0, out |-> "pending"])]

\* the listener's async function has returned (fulfilled) or thrown (rejected)
Finish(w, t, out) ==
    [w EXCEPT !.tasks[t].pc = "done", !.tasks[t].res = "", !.tasks[t].out = out]

\* _triggerZone without its try/catch: a rejection of playSound leaves the
\* handler (fault variant for C5)
TriggerZoneSettledUncaught(w, t, r) ==
    Finish(w, t, IF r = "throw" THEN "rejected" ELSE "fulfilled")

\* a _triggerZone that, after a successful playSound, stays suspended until
\* the source node has ended (fault variant for C32)
TriggerZoneSettledAwaitEnded(w, t, r) ==
    IF r = "ok" THEN SetPc(w, t, "ended_wait", "") ELSE Finish(w, t, "fulfilled")

\* _triggerZone lines 354-362 once the awaited playSound has settled with r:
\* a rejection is caught and logged, and the handler returns normally
TriggerZoneSettled(w, t, r) ==
    Finish(w, t, "fulfilled")

\* _triggerZone with the audio trigger issued ahead of the visual activation
\* (fault variant for C2)
TriggerZoneAudioFirst(w, t) ==
    LET zone == w.tasks[t].zone
        p == PlaySound(w, t, w.tasks[t].soundFile)
        w1 == activateZone(p.w, t, zone)
    IN  CASE p.r = "await" -> SetPc(w1, t, "P_unlock_wait", "")
          [] p.r = "return" -> Enqueue(SetPc(w1, t, "P_unlock_ret", "ok"), t)
          [] OTHER -> TriggerZoneSettled(w1, t, p.r)

\* _triggerZone lines 340-355: visual activation, then playSound up to its await
TriggerZone(w, t) ==
    LET zone == w.tasks[t].zone
        w1 == activateZone(w, t, zone)
        p == PlaySound(w1, t, w.tasks[t].soundFile)
    IN  CASE p.r = "await" -> SetPc(p.w, t, "P_unlock_wait", "")
          [] p.r = "return" -> Enqueue(SetPc(p.w, t, "P_unlock_ret", "ok"), t)
          [] OTHER -> TriggerZoneSettled(p.w, t, p.r)

\* a handler that sets audioUnlocked when it makes its unlock call instead of
\* when the call has settled (fault variant for C21)
UnlockThenTriggerFlagEarly(w, t) ==
    IF ~w.ih.audioUnlocked
    THEN LET u == UnlockAudioContext([w EXCEPT !.ih.audioUnlocked = TRUE], t, TRUE)
         IN  IF u.r = "await"
             THEN SetPc(u.w, t, "H_unlock_wait", "")
             ELSE Enqueue(SetPc(u.w, t, "H_unlock_ret", "ok"), t)
    ELSE TriggerZone(w, t)

\* a handler that makes its unlock call without awaiting it and goes straight
\* on to _triggerZone (fault variant for C24)
UnlockThenTriggerNoAwait(w, t) ==
    IF ~w.ih.audioUnlocked
    THEN LET u == UnlockAudioContext(w, t, TRUE)
         IN  TriggerZone([u.w EXCEPT !.ih.audioUnlocked = TRUE], t)
    ELSE TriggerZone(w, t)

\* handlePointerDown lines 165-189 and handleKeydown lines 229-247, up to the
\* first await
UnlockThenTrigger(w, t) ==
    IF ~w.ih.audioUnlocked
    THEN LET u == UnlockAudioContext(w, t, TRUE)
         IN  IF u.r = "await"
             THEN SetPc(u.w, t, "H_unlock_wait", "")
             ELSE Enqueue(SetPc(u.w, t, "H_unlock_ret", "ok"), t)
    ELSE TriggerZone(w, t)

\* a handler that gives up when its unlock attempt was rejected (fault variant for C4)
UnlockSettledSkipOnFailure(w, t) ==
    IF w.tasks[t].res = "throw"
    THEN Finish([w EXCEPT !.ih.audioUnlocked = TRUE], t, "fulfilled")
    ELSE TriggerZone([w EXCEPT !.ih.audioUnlocked = TRUE], t)

\* a handler that sets audioUnlocked only when its unlock attempt resolved, so
\* that the next input tries again (fault variant for C26)
UnlockSettledFlagOnSuccess(w, t) ==
    TriggerZone([w EXCEPT !.ih.audioUnlocked = (w.tasks[t].res # "throw")], t)

\* the handler after its awaited unlock settled (lines 172-189, 232-247):
\* audioUnlocked is set on success and in the catch block alike
UnlockSettled(w, t) ==
    TriggerZone([w EXCEPT !.ih.audioUnlocked = TRUE], t)

\* a handler that calls preventDefault ahead of the zone lookup (fault
\* variant for C15)
IgnoredButPrevented(w) == [w |-> w, prevented |-> TRUE, task |-> 0]

\* the handler returns early: nothing is suppressed, no call is made
Ignored(w) == [w |-> w, prevented |-> FALSE, task |-> 0]

Handled(w, kind, zone, volume) ==
    LET w1 == NewTask(w, kind, zone, volume)
        t == Len(w1.tasks)
    IN  [w |-> UnlockThenTrigger(w1, t), prevented |-> TRUE, task |-> t]

\* Math.sqrt, on the perfect squares the model's rectangles and presses give
Sqrt(n) == CHOOSE r \in 0..n : r * r = n

Min(a, b) == IF a <= b THEN a ELSE b

\* zoneElement.getBoundingClientRect(): every division below is exact for it
RectOf(z) == [width |-> 6, height |-> 8]

\* the formula of the method's doc comment: 40% at the edge (fault variant
\* for C20)
CalculateVolumeEdgeFloor(event, zone) ==
    LET rect == RectOf(zone)
        centerX == rect.width \div 2
        centerY == rect.height \div 2
        dx == event.clientX - centerX
        dy == event.clientY - centerY
        distance == Sqrt(dx * dx + dy * dy)
        maxDistance == Sqrt(centerX * centerX + centerY * centerY)
        normalizedDistance == Min((Unity * distance) \div maxDistance, Unity)
        volume == 40 + (60 * (Unity - normalizedDistance)) \div Unity
    IN  (volume * BaseVolume(zone)) \div Unity

\* _calculateVolumeFromClickPosition(event, zoneElement, zone); clientX and
\* clientY are kept relative to rect.left and rect.top
CalculateVolumeFromClickPosition(event, zone) ==
    LET rect == RectOf(zone)
        clickX == event.clientX
        clickY == event.clientY
        centerX == rect.width \div 2
        centerY == rect.height \div 2
        dx == clickX - centerX
        dy == clickY - centerY
        distance == Sqrt(dx * dx + dy * dy)
        maxDistance == Sqrt(centerX * centerX + centerY * centerY)
    IN  IF maxDistance = 0 THEN BaseVolume(zone)
        ELSE LET normalizedDistance == Min((Unity * distance) \div maxDistance, Unity)
                 volume == 0 + 1 * (Unity - normalizedDistance)
                 baseVolume == BaseVolume(zone)
             IN  (volume * baseVolume) \div Unity

\* lines 152-161 of handlePointerDown: the volume handed to _triggerZone
PointerVolume(event, zone, isKeyboardKeyItem) ==
    IF ~isKeyboardKeyItem THEN CalculateVolumeFromClickPosition(event, zone)
    ELSE (Unity * BaseVolume(zone)) \div Unity

\* handlePointerDown without the enabled check of line 96 (fault variant for C9)
HandlePointerDownNoEnabledCheck(w, event) ==
    LET keyItemZone == WalkKeyItem(event.target)
        zone == IF keyItemZone # NoZone THEN keyItemZone ELSE getZoneByElement(event.target)
    IN  IF zone = NoZone THEN Ignored(w)
        ELSE Handled(w, "pointer", zone, PointerVolume(event, zone, keyItemZone # NoZone))

\* handlePointerDown that resolves zone elements only, not the key hints
\* (fault variant for C18)
HandlePointerDownZoneElementOnly(w, event) ==
    IF ~w.ih.enabled THEN Ignored(w)
    ELSE LET zone == IF \E z \in Zones : event.target = ZoneEl(z)
                     THEN getZoneByElement(event.target) ELSE NoZone
         IN  IF zone = NoZone THEN Ignored(w)
             ELSE Handled(w, "pointer", zone, PointerVolume(event, zone, FALSE))

\* handlePointerDown(event)
HandlePointerDown(w, event) ==
    IF ~w.ih.enabled THEN Ignored(w)
    ELSE LET keyItemZone == WalkKeyItem(event.target)
             isKeyboardKeyItem == keyItemZone # NoZone
             zone == IF isKeyboardKeyItem THEN keyItemZone ELSE getZoneByElement(event.target)
         IN  IF zone = NoZone THEN Ignored(w)
             ELSE Handled(w, "pointer", zone, PointerVolume(event, zone, isKeyboardKeyItem))

\* handleKeydown without the hasFocus check of line 197 (fault variant for C8)
HandleKeydownNoFocusCheck(w, event) ==
    IF ~w.ih.enabled THEN Ignored(w)
    ELSE LET zone == getZoneByKey(ToLowerCase(event.key))
         IN  IF event.ctrlKey \/ event.altKey \/ event.metaKey \/ event.shiftKey
                \/ zone = NoZone
             THEN Ignored(w)
             ELSE Handled(w, "key", zone, BaseVolume(zone))

\* handleKeydown with the shift flag left out of the modifier test, so that a
\* capital letter typed with Shift resolves like the plain key (fault variant
\* for C38)
HandleKeydownShiftedLetters(w, event) ==
    IF ~w.ih.enabled \/ ~w.ih.hasFocus THEN Ignored(w)
    ELSE LET isShiftKey == event.code = "ShiftLeft" \/ event.code = "ShiftRight"
         IN  IF ~isShiftKey /\ (event.ctrlKey \/ event.altKey \/ event.metaKey)
             THEN Ignored(w)
             ELSE LET keyToCheck == IF isShiftKey
                                    THEN (IF event.code = "ShiftLeft" THEN "leftshift" ELSE "rightshift")
                                    ELSE ToLowerCase(event.key)
                      zone == getZoneByKey(keyToCheck)
                  IN  IF zone = NoZone THEN Ignored(w)
                      ELSE Handled(w, "key", zone, BaseVolume(zone))

\* handleKeydown(event)
HandleKeydown(w, event) ==
    IF ~w.ih.enabled \/ ~w.ih.hasFocus THEN Ignored(w)
    ELSE LET isShiftKey == event.code = "ShiftLeft" \/ event.code = "ShiftRight"
         IN  IF ~isShiftKey /\ (event.ctrlKey \/ event.altKey \/ event.metaKey \/ event.shiftKey)
             THEN Ignored(w)
             ELSE LET keyToCheck == IF isShiftKey
                                    THEN (IF event.code = "ShiftLeft" THEN "leftshift" ELSE "rightshift")
                                    ELSE ToLowerCase(event.key)
                      zone == getZoneByKey(keyToCheck)
                  IN  IF zone = NoZone THEN Ignored(w)
                      ELSE Handled(w, "key", zone, BaseVolume(zone))

\* AudioManager._handleGestureUnlockEvent, the capture listener on window
HandleGestureUnlockEvent(w) ==
    IF w.am.isContextUnlocked THEN RemoveGestureUnlockListeners(w)
    ELSE LET w1 == NewTask(w, "gesture", NoZone, 0)
             t == Len(w1.tasks)
             u == UnlockAudioContext(w1, t, TRUE)
         IN  IF u.r = "await"
             THEN SetPc(u.w, t, "G_unlock_wait", "")
             ELSE Finish(u.w, t, "fulfilled")

----------------------------------------------------------------------------
(* The input events the environment may send *)

Key(code, key, ctrl, alt, meta, shift) ==
    [code |-> code, key |-> key, ctrlKey |-> ctrl, altKey |-> alt,
     metaKey |-> meta, shiftKey |-> shift]

NoKey == Key("", "", FALSE, FALSE, FALSE, FALSE)

KeyEvents ==
    { Key("KeyQ", "q", FALSE, FALSE, FALSE, FALSE),
      Key("KeyW", "w", FALSE, FALSE, FALSE, FALSE),
      Key("KeyQ", "Q", FALSE, FALSE, FALSE, FALSE),     \* caps lock
      Key("KeyX", "x", FALSE, FALSE, FALSE, FALSE),     \* bound to no zone
      Key("KeyQ", "Q", FALSE, FALSE, FALSE, TRUE),      \* shift held
      Key("KeyW", "w", TRUE, FALSE, FALSE, FALSE),      \* ctrl held
      Key("ShiftLeft", "Shift", FALSE, FALSE, FALSE, TRUE) }

PointerTargets ==
    { ZoneEl("kick"), ZoneEl("snare"), HintSpan("kick"), "img", "other" }

\* press positions inside a zone's rectangle: centre, two corners, two edges
Centre == <<3, 4>>

Presses == { Centre, <<0, 0>>, <<6, 8>>, <<3, 0>>, <<0, 4>> }

\* listeners attached by an InputHandler created ahead of the awaited
\* preloadAll (fault variant for C13)
ReachesInputHandlerBeforePreload(kind, target) ==
    \/ kind = "key"
    \/ Within(target, "container")
    \/ Within(target, "hintbox")

\* InputHandler.initialize: pointerdown is listened to on the container and on
\* #keyboard-hint, keydown on document
ReachesInputHandler(kind, target) ==
    /\ ih.exists
    /\ \/ kind = "key"
       \/ Within(target, "container")
       \/ Within(target, "hintbox")

Idle == microtasks = <<>> /\ ev.phase # "pending"

\* no key recording has been started
NoRecording == [handlers |-> <<>>, current |-> 0, zoneId |-> NoZone, popup |-> FALSE,
                timers |-> 0]

----------------------------------------------------------------------------
(* Initial state: App.init has constructed the AudioManager and the
   TriggerZoneManager and awaits preloadAll, whose loads are all in flight *)

Init ==
    /\ zm = ZoneManagerOf(ZONE_CONFIG)
    /\ appPc = "preloading"
    /\ load = [p \in SOUND_FILES |-> "fetching"]
    /\ am = [audioBuffers |-> {}, loadedSounds |-> {}, loadErrors |-> {},
             isContextUnlocked |-> FALSE, unlockPromise |-> 0,
             autoUnlockAttached |-> TRUE, scratchBuffer |-> FALSE,
             listeners |-> AppListeners]
    /\ ih = [exists |-> FALSE, enabled |-> TRUE, hasFocus |-> TRUE, audioUnlocked |-> FALSE]
    /\ ctxState \in {"suspended", "running"}
    /\ resumes = <<>>
    /\ nodes = <<>>
    /\ tasks = <<>>
    /\ microtasks = <<>>
    /\ log = <<[op |-> "emit", task |-> 0, arg |-> "loading", n |-> 0]>>
    /\ ev = [phase |-> "none", kind |-> "", target |-> "", key |-> NoKey,
             clientX |-> 0, clientY |-> 0, prevented |-> FALSE, task |-> 0]
    /\ nEvents = 0
    /\ flash = NoFlash
    /\ rec = NoRecording

----------------------------------------------------------------------------
(* Preload: AudioManager.preloadAll / _loadSound, and the rest of App.init *)

\* a _loadSound that reports progress after a failed load as well (fault
\* variant for C11)
LoadFailedWithProgress(w, soundPath) ==
    LET w1 == Emit([w EXCEPT !.am.loadErrors = @ \cup {soundPath}], "error", 0)
    IN  Emit(w1, "progress", Cardinality(w1.am.loadedSounds))

\* the catch block of _loadSound (lines 270-279)
LoadFailed(w, soundPath) ==
    Emit([w EXCEPT !.am.loadErrors = @ \cup {soundPath}], "error", 0)

\* a _loadSound that stores the decoded buffer without marking the path as
\* loaded (fault variant for C40)
LoadStoredUnmarked(w, soundPath) ==
    LET w1 == [w EXCEPT !.am.audioBuffers = @ \cup {soundPath}]
    IN  Emit(w1, "progress", Cardinality(w1.am.loadedSounds))

\* lines 259-266 of _loadSound; they are inside the try block, so that an
\* exception leaving emit('progress') would be handled by the catch block
LoadStored(w, soundPath) ==
    LET w1 == [w EXCEPT !.am.audioBuffers = @ \cup {soundPath},
                        !.am.loadedSounds = @ \cup {soundPath}]
        w2 == Emit(w1, "progress", Cardinality(w1.am.loadedSounds))
    IN  IF EmitOutcome(w1, "progress") = "thrown" THEN LoadFailed(w2, soundPath) ELSE w2

\* a preloadAll that completes with the first settled load, Promise.race
\* fashion (fault variant for C12)
AllSettledAny(l) == \E p \in SOUND_FILES : l[p] \in {"loaded", "failed"}

\* Promise.allSettled(loadPromises) has resolved
AllSettled(l) == \A p \in SOUND_FILES : l[p] \in {"loaded", "failed"}

\* Promise.allSettled has resolved: preloadAll emits 'loaded' and returns;
\* App.init goes on to create and initialize the InputHandler (lines 80-104)
PreloadDone(w) ==
    LET w1 == Emit(w, "loaded", 0)
    IN  [w1 EXCEPT !.ih = [exists |-> TRUE, enabled |-> TRUE, hasFocus |-> TRUE,
                           audioUnlocked |-> FALSE]]

\* emit('loaded') threw inside the try of preloadAll (lines 226-237): the
\* catch emits 'error' and rethrows, and App.init's catch reports and rethrows
PreloadRejected(w) ==
    Logged(Emit(Emit(w, "loaded", 0), "error", 0), "handleError", 0, "preloadAll")

\* a preloadAll that rejects on the first failed load, Promise.all fashion:
\* App.init throws and no InputHandler is created (fault variant for C10)
AfterLoadFailFast(w, l) ==
    /\ load' = l
    /\ IF \E p \in SOUND_FILES : l[p] = "failed"
       THEN Set(w) /\ appPc' = "failed"
       ELSE IF AllSettled(l)
       THEN Set(PreloadDone(w)) /\ appPc' = "ready"
       ELSE Set(w) /\ appPc' = appPc
    /\ UNCHANGED <<zm, ev, nEvents, rec>>

\* a settled load: when it is the last one, preloadAll and App.init continue
AfterLoad(w, l) ==
    /\ load' = l
    /\ IF AllSettled(l)
       THEN IF EmitOutcome(w, "loaded") = "thrown"
            THEN Set(PreloadRejected(w)) /\ appPc' = "failed"
            ELSE Set(PreloadDone(w)) /\ appPc' = "ready"
       ELSE Set(w) /\ appPc' = appPc
    /\ UNCHANGED <<zm, ev, nEvents, rec>>

\* fetch(soundPath) settles: "ok", "notOk" (response.ok false) or "rejected"
FetchSettle(p, outcome) ==
    /\ Idle
    /\ load[p] = "fetching"
    /\ IF outcome = "ok"
       THEN AfterLoad(W, [load EXCEPT ![p] = "decoding"])
       ELSE AfterLoad(LoadFailed(W, p), [load EXCEPT ![p] = "failed"])

\* decodeAudioData settles
DecodeSettle(p, ok) ==
    /\ Idle
    /\ load[p] = "decoding"
    /\ IF ok
       THEN AfterLoad(LoadStored(W, p), [load EXCEPT ![p] = "loaded"])
       ELSE AfterLoad(LoadFailed(W, p), [load EXCEPT ![p] = "failed"])

----------------------------------------------------------------------------
(* Event dispatch *)

\* A pointerdown or keydown reaches window first (capture), where the
\* AudioManager's gesture listener runs; the InputHandler's listener follows
\* as a second callback of the same dispatch.
Dispatch(kind, target, key, pos) ==
    /\ Idle
    /\ nEvents < MaxEvents
    /\ nEvents' = nEvents + 1
    /\ Set(IF am.autoUnlockAttached THEN HandleGestureUnlockEvent(W) ELSE W)
    /\ ev' = IF ReachesInputHandler(kind, target)
             THEN [phase |-> "pending", kind |-> kind, target |-> target, key |-> key,
                   clientX |-> pos[1], clientY |-> pos[2], prevented |-> FALSE, task |-> 0]
             ELSE [phase |-> "done", kind |-> kind, target |-> target, key |-> key,
                   clientX |-> pos[1], clientY |-> pos[2], prevented |-> FALSE, task |-> 0]
    /\ UNCHANGED <<zm, appPc, load, rec>>

\* a pointer-down at position pos of the target's rectangle
PointerDownAt(target, pos) == Dispatch("pointer", target, NoKey, pos)

PointerDown(target) == PointerDownAt(target, Centre)

KeyDown(key) == Dispatch("key", "", key, <<0, 0>>)

\* the InputHandler's listener for the event being dispatched
HandlerPhase ==
    /\ ev.phase = "pending"
    /\ LET h == IF ev.kind = "pointer"
                THEN HandlePointerDown(W, ev)
                ELSE HandleKeydown(W, ev.key)
       IN  /\ Set(h.w)
           /\ ev' = [ev EXCEPT !.phase = "done", !.prevented = h.prevented, !.task = h.task]
    /\ UNCHANGED <<zm, appPc, load, nEvents, rec>>

\* window focus / blur (App._setupFocusTracking and InputHandler.initialize)
Focus ==
    /\ Idle
    /\ ih.exists
    /\ nEvents < MaxEvents
    /\ nEvents' = nEvents + 1
    /\ ih' = [ih EXCEPT !.hasFocus = TRUE]
    /\ UNCHANGED <<zm, appPc, load, am, ctxState, resumes, nodes, tasks, microtasks, log, ev, flash, rec>>

Blur ==
    /\ Idle
    /\ ih.exists
    /\ nEvents < MaxEvents
    /\ nEvents' = nEvents + 1
    /\ ih' = [ih EXCEPT !.hasFocus = FALSE]
    /\ UNCHANGED <<zm, appPc, load, am, ctxState, resumes, nodes, tasks, microtasks, log, ev, flash, rec>>

\* InputHandler.enable / disable, called by App's key recording
Enable ==
    /\ Idle
    /\ ih.exists
    /\ nEvents < MaxEvents
    /\ nEvents' = nEvents + 1
    /\ ih' = [ih EXCEPT !.enabled = TRUE]
    /\ UNCHANGED <<zm, appPc, load, am, ctxState, resumes, nodes, tasks, microtasks, log, ev, flash, rec>>

Disable ==
    /\ Idle
    /\ ih.exists
    /\ nEvents < MaxEvents
    /\ nEvents' = nEvents + 1
    /\ ih' = [ih EXCEPT !.enabled = FALSE]
    /\ UNCHANGED <<zm, appPc, load, am, ctxState, resumes, nodes, tasks, microtasks, log, ev, flash, rec>>

----------------------------------------------------------------------------
(* The platform *)

\* the pending resume() promise settles: fulfilled with the context running,
\* fulfilled with the state unchanged, or rejected; its awaiters are queued
ResumeSettle(p, outcome) ==
    /\ Idle
    /\ p \in 1..Len(resumes)
    /\ resumes[p].status = "pending"
    /\ resumes' = [resumes EXCEPT ![p].status =
                        IF outcome = "rejected" THEN "rejected" ELSE "fulfilled"]
    /\ ctxState' = IF outcome = "running" THEN "running" ELSE ctxState
    /\ microtasks' = microtasks \o resumes[p].waiters
    /\ UNCHANGED <<zm, appPc, load, am, ih, nodes, tasks, log, ev, nEvents, flash, rec>>

\* the page is backgrounded or the audio session interrupted
Background(to) ==
    /\ Idle
    /\ ctxState = "running"
    /\ ctxState' = to
    /\ UNCHANGED <<zm, appPc, load, am, ih, resumes, nodes, tasks, microtasks, log, ev, nEvents, flash, rec>>

\* a playing source node reaches the end of its buffer
NodeEnded(i) ==
    /\ Idle
    /\ i \in 1..Len(nodes)
    /\ nodes[i].state = "playing"
    /\ nodes' = [nodes EXCEPT ![i].state = "ended"]
    /\ UNCHANGED <<zm, appPc, load, am, ih, ctxState, resumes, tasks, microtasks, log, ev, nEvents, flash, rec>>

----------------------------------------------------------------------------
(* Microtasks: the continuation of the first task in the queue *)

Continue(w, t) ==
    LET pc == w.tasks[t].pc
    IN  CASE pc = "H_unlock_wait" ->
                LET u == UnlockContinue(w, t)
                IN  Enqueue(SetPc(u.w, t, "H_unlock_ret", u.r), t)
          [] pc = "P_unlock_wait" ->
                LET u == UnlockContinue(w, t)
                IN  Enqueue(SetPc(u.w, t, "P_unlock_ret", u.r), t)
          [] pc = "G_unlock_wait" ->
                LET u == UnlockContinue(w, t)
                IN  Finish(u.w, t, "fulfilled")
          [] pc = "H_unlock_ret" -> UnlockSettled(w, t)
          [] pc = "P_unlock_ret" ->
                LET c == PlayContinue(w, t, w.tasks[t].res)
                IN  TriggerZoneSettled(c.w, t, c.r)
          [] OTHER -> w

RunMicrotask ==
    /\ microtasks # <<>>
    /\ Set(Continue([W EXCEPT !.microtasks = Tail(@)], Head(microtasks)))
    /\ UNCHANGED <<zm, appPc, load, ev, nEvents, rec>>

----------------------------------------------------------------------------

Next ==
    \/ \E p \in SOUND_FILES, o \in {"ok", "notOk", "rejected"} : FetchSettle(p, o)
    \/ \E p \in SOUND_FILES, ok \in BOOLEAN : DecodeSettle(p, ok)
    \/ \E target \in PointerTargets : PointerDown(target)
    \/ \E key \in KeyEvents : KeyDown(key)
    \/ HandlerPhase
    \/ Focus
    \/ Blur
    \/ Enable
    \/ Disable
    \/ \E p \in 1..Len(resumes), o \in {"running", "unchanged", "rejected"} : ResumeSettle(p, o)
    \/ \E to \in {"suspended", "interrupted"} : Background(to)
    \/ \E i \in 1..Len(nodes) : NodeEnded(i)
    \/ RunMicrotask

Spec == Init /\ [][Next]_vars

\* the event loop drains the microtask queue before it does anything else
FairSpec == Spec /\ WF_vars(RunMicrotask)

----------------------------------------------------------------------------
(* App.init from its first line: the AudioContext constructor may throw *)

\* App.init has been called and has not yet reached new AudioManager: there
\* is no audio manager, no context, no listener
BootInit ==
    /\ zm = ZoneManagerOf(ZONE_CONFIG)
    /\ appPc = "start"
    /\ load = [p \in SOUND_FILES |-> "unrequested"]
    /\ am = [audioBuffers |-> {}, loadedSounds |-> {}, loadErrors |-> {},
             isContextUnlocked |-> FALSE, unlockPromise |-> 0,
             autoUnlockAttached |-> FALSE, scratchBuffer |-> FALSE, listeners |-> <<>>]
    /\ ih = [exists |-> FALSE, enabled |-> TRUE, hasFocus |-> TRUE, audioUnlocked |-> FALSE]
    /\ ctxState = "none"
    /\ resumes = <<>>
    /\ nodes = <<>>
    /\ tasks = <<>>
    /\ microtasks = <<>>
    /\ log = <<>>
    /\ ev = [phase |-> "none", kind |-> "", target |-> "", key |-> NoKey,
             clientX |-> 0, clientY |-> 0, prevented |-> FALSE, task |-> 0]
    /\ nEvents = 0
    /\ flash = NoFlash
    /\ rec = NoRecording

\* an AudioManager constructor that logs the failure of the AudioContext
\* constructor and goes on without a context, so that App.init carries on
\* (fault variant for C22)
NewAudioManagerSwallow(created, state) ==
    /\ appPc = "start"
    /\ appPc' = "preloading"
    /\ load' = [p \in SOUND_FILES |-> "fetching"]
    /\ am' = [am EXCEPT !.autoUnlockAttached = created, !.listeners = AppListeners]
    /\ ctxState' = IF created THEN state ELSE "none"
    /\ log' = IF created THEN <<[op |-> "emit", task |-> 0, arg |-> "loading", n |-> 0]>>
              ELSE <<[op |-> "initThrow", task |-> 0, arg |-> "AudioContext", n |-> 0],
                     [op |-> "emit", task |-> 0, arg |-> "loading", n |-> 0]>>
    /\ UNCHANGED <<zm, ih, resumes, nodes, tasks, microtasks, ev, nEvents, flash, rec>>

\* App.init lines 36-78: new AudioManager (whose _initAudioContext rethrows
\* what the AudioContext constructor throws, ahead of _setupGestureUnlock),
\* the TriggerZoneManager, and the call of preloadAll up to its await; when
\* the constructor throws, the catch of App.init reports through
\* _handleError and rethrows
NewAudioManager(created, state) ==
    /\ appPc = "start"
    /\ IF created
       THEN /\ appPc' = "preloading"
            /\ load' = [p \in SOUND_FILES |-> "fetching"]
            /\ am' = [am EXCEPT !.autoUnlockAttached = TRUE, !.listeners = AppListeners]
            /\ ctxState' = state
            /\ log' = <<[op |-> "emit", task |-> 0, arg |-> "loading", n |-> 0]>>
       ELSE /\ appPc' = "failed"
            /\ log' = <<[op |-> "initThrow", task |-> 0, arg |-> "AudioContext", n |-> 0],
                        [op |-> "handleError", task |-> 0, arg |-> "AudioContext", n |-> 0]>>
            /\ UNCHANGED <<load, am, ctxState>>
    /\ UNCHANGED <<zm, ih, resumes, nodes, tasks, microtasks, ev, nEvents, flash, rec>>

BootNext ==
    \/ \E created \in BOOLEAN, state \in {"suspended", "running"} : NewAudioManager(created, state)
    \/ Next

BootSpec == BootInit /\ [][BootNext]_vars

----------------------------------------------------------------------------
(* Input resolution in detail: the ready application under several zone
   configurations, with press positions, modifier keys and key recording *)

\* a configuration with a Shift key bound, as in the keyboardKey lists of the
\* alternative zone configuration
ShiftConfig ==
    [z \in Zones |-> [keyboardKey |-> IF z = "kick" THEN "leftshift" ELSE "w",
                      volume |-> <<>>]]

\* a configuration with a base volume and a key written in upper case
VolumeConfig ==
    [z \in Zones |-> IF z = "kick" THEN [keyboardKey |-> "Q", volume |-> <<150>>]
                                   ELSE [keyboardKey |-> "w", volume |-> <<>>]]

Configs == {ZONE_CONFIG, ShiftConfig, VolumeConfig}

ModifierKeyEvents ==
    { Key("ShiftRight", "Shift", FALSE, FALSE, FALSE, TRUE),
      Key("ShiftLeft", "Shift", TRUE, FALSE, FALSE, TRUE),     \* ctrl held
      Key("KeyQ", "q", FALSE, TRUE, FALSE, FALSE),             \* alt held
      Key("KeyW", "w", FALSE, FALSE, TRUE, FALSE) }            \* meta held

InputTargets == PointerTargets \cup {HintItem(z) : z \in Zones}

\* key.length === 1 && /[a-z0-9]/.test(key), on the keys the model uses
IsRecordable(key) == key \in {"q", "w", "x"}



\* App.init has completed with every sound loaded; no input has arrived yet
InputInit ==
    /\ zm \in {ZoneManagerOf(c) : c \in Configs}
    /\ appPc = "ready"
    /\ load = [p \in SOUND_FILES |-> "loaded"]
    /\ am = [audioBuffers |-> SOUND_FILES, loadedSounds |-> SOUND_FILES, loadErrors |-> {},
             isContextUnlocked |-> FALSE, unlockPromise |-> 0,
             autoUnlockAttached |-> TRUE, scratchBuffer |-> FALSE,
             listeners |-> AppListenersLoaded]
    /\ ih = [exists |-> TRUE, enabled |-> TRUE, hasFocus |-> TRUE, audioUnlocked |-> FALSE]
    /\ ctxState = "running"
    /\ resumes = <<>>
    /\ nodes = <<>>
    /\ tasks = <<>>
    /\ microtasks = <<>>
    /\ log = <<[op |-> "emit", task |-> 0, arg |-> "loading", n |-> 0],
               [op |-> "emit", task |-> 0, arg |-> "progress", n |-> 1],
               [op |-> "emit", task |-> 0, arg |-> "progress", n |-> 2],
               [op |-> "emit", task |-> 0, arg |-> "loaded", n |-> 0]>>
    /\ ev = [phase |-> "none", kind |-> "", target |-> "", key |-> NoKey,
             clientX |-> 0, clientY |-> 0, prevented |-> FALSE, task |-> 0]
    /\ nEvents = 0
    /\ flash = NoFlash
    /\ rec = NoRecording

\* App._startKeyRecording (the click on a key hint): the InputHandler is
\* disabled while the popup waits for a key
StartKeyRecording ==
    /\ Idle
    /\ ih.exists
    /\ ih.enabled
    /\ ih' = [ih EXCEPT !.enabled = FALSE]
    /\ UNCHANGED <<zm, appPc, load, am, ctxState, resumes, nodes, tasks, microtasks, log, ev,
                   nEvents, flash, rec>>

\* the capture keydown listener of the recording popup, for zone zoneId: the
\* window gesture listener runs first, then keyRecordingHandler
RecordingKeydown(zoneId, event) ==
    /\ Idle
    /\ ih.exists
    /\ ~ih.enabled
    /\ nEvents < MaxEvents
    /\ nEvents' = nEvents + 1
    /\ Set(IF am.autoUnlockAttached THEN HandleGestureUnlockEvent(W) ELSE W)
    /\ LET key == ToLowerCase(event.key)
           accepted == /\ ~(event.ctrlKey \/ event.altKey \/ event.metaKey \/ event.shiftKey)
                       /\ event.key # "Escape"
                       /\ IsRecordable(key)
       IN  /\ zm' = IF accepted THEN updateZoneKey(zm, zoneId, key) ELSE zm
           /\ ev' = [phase |-> "done", kind |-> "record", target |-> HintItem(zoneId),
                     key |-> event, clientX |-> 0, clientY |-> 0,
                     prevented |-> accepted, task |-> 0]
    /\ UNCHANGED <<appPc, load, rec>>

\* App._cancelKeyRecording, run by the popup's timer: the InputHandler is
\* enabled again
CancelKeyRecording ==
    /\ Idle
    /\ ih.exists
    /\ ~ih.enabled
    /\ ih' = [ih EXCEPT !.enabled = TRUE]
    /\ UNCHANGED <<zm, appPc, load, am, ctxState, resumes, nodes, tasks, microtasks, log, ev,
                   nEvents, flash, rec>>

InputNext ==
    \/ \E target \in InputTargets, pos \in Presses : PointerDownAt(target, pos)
    \/ \E key \in KeyEvents \cup ModifierKeyEvents : KeyDown(key)
    \/ HandlerPhase
    \/ StartKeyRecording
    \/ \E z \in Zones, key \in KeyEvents \cup ModifierKeyEvents : RecordingKeydown(z, key)
    \/ CancelKeyRecording
    \/ RunMicrotask

InputSpec == InputInit /\ [][InputNext]_vars

----------------------------------------------------------------------------
(* The event emitter during the preload: any listeners, faulty ones included,
   registered ahead of preloadAll *)

MaxListeners == 2

ListenerEvents == {"progress", "error", "loaded"}

\* the listener lists AudioManager.on can have built, by registration order
ListenerLists ==
    UNION {[1..n -> [event : ListenerEvents, throws : BOOLEAN, calls : {0}]] :
              n \in 0..MaxListeners}

EmitInit ==
    /\ zm = ZoneManagerOf(ZONE_CONFIG)
    /\ appPc = "preloading"
    /\ load = [p \in SOUND_FILES |-> "fetching"]
    /\ \E ls \in ListenerLists :
          am = [audioBuffers |-> {}, loadedSounds |-> {}, loadErrors |-> {},
                isContextUnlocked |-> FALSE, unlockPromise |-> 0,
                autoUnlockAttached |-> TRUE, scratchBuffer |-> FALSE, listeners |-> ls]
    /\ ih = [exists |-> FALSE, enabled |-> TRUE, hasFocus |-> TRUE, audioUnlocked |-> FALSE]
    /\ ctxState = "suspended"
    /\ resumes = <<>>
    /\ nodes = <<>>
    /\ tasks = <<>>
    /\ microtasks = <<>>
    /\ log = <<[op |-> "emit", task |-> 0, arg |-> "loading", n |-> 0]>>
    /\ ev = [phase |-> "none", kind |-> "", target |-> "", key |-> NoKey,
             clientX |-> 0, clientY |-> 0, prevented |-> FALSE, task |-> 0]
    /\ nEvents = 0
    /\ flash = NoFlash
    /\ rec = NoRecording

EmitNext ==
    \/ \E p \in SOUND_FILES, o \in {"ok", "notOk", "rejected"} : FetchSettle(p, o)
    \/ \E p \in SOUND_FILES, ok \in BOOLEAN : DecodeSettle(p, ok)

EmitSpec == EmitInit /\ [][EmitNext]_vars

----------------------------------------------------------------------------
(* Key recording in detail: the click listeners of the key hints, the
   keydown handlers _startKeyRecording registers on document, and the close
   timer *)

MaxRecordings == 3

RecordKeyEvents ==
    { Key("KeyQ", "q", FALSE, FALSE, FALSE, FALSE),
      Key("KeyX", "x", FALSE, FALSE, FALSE, FALSE),
      Key("Escape", "Escape", FALSE, FALSE, FALSE, FALSE),
      Key("KeyX", "X", FALSE, FALSE, FALSE, TRUE) }     \* shift held

\* the handlers currently registered on document, in registration order
RegisteredHandlers(r) == {h \in DOMAIN r.handlers : r.handlers[h].registered}

\* document.removeEventListener('keydown', this.keyRecordingHandler, {capture: true}):
\* whatever handler the field holds at the time of the call; nothing for null
RemoveKeyRecordingHandler(r) ==
    IF r.current = 0 THEN r
    ELSE [r EXCEPT !.handlers[r.current].registered = FALSE]

\* App._cancelKeyRecording, on the state s of a running callback
cancelKeyRecording(s) ==
    [s EXCEPT !.rec = [RemoveKeyRecordingHandler(@) EXCEPT !.current = 0, !.popup = FALSE,
                                                             !.zoneId = NoZone],
              !.w.ih.enabled = TRUE]

\* App._startKeyRecording(zoneId, keySpanElement): a new closure is created,
\* stored in this.keyRecordingHandler and registered
startKeyRecording(s, zoneId) ==
    [s EXCEPT !.rec = [@ EXCEPT !.zoneId = zoneId, !.popup = TRUE,
                                !.handlers = Append(@, [zone |-> zoneId, registered |-> TRUE]),
                                !.current = Len(s.rec.handlers) + 1],
              !.w.ih.enabled = FALSE]

\* the closure created by the h-th _startKeyRecording call (lines 209-247);
\* zoneId is the zone that call was made for
keyRecordingHandler(s, h, event) ==
    LET zoneId == s.rec.handlers[h].zone
        key == ToLowerCase(event.key)
    IN  IF event.ctrlKey \/ event.altKey \/ event.metaKey \/ event.shiftKey THEN s
        ELSE IF event.key = "Escape"
        THEN cancelKeyRecording([s EXCEPT !.rec = RemoveKeyRecordingHandler(@)])
        ELSE IF IsRecordable(key)
        THEN [s EXCEPT !.prevented = TRUE,
                       !.stopped = TRUE,
                       !.rec = [RemoveKeyRecordingHandler(@) EXCEPT !.timers = @ + 1],
                       !.zm = updateZoneKey(@, zoneId, key),
                       !.w = Logged(@, "updateZoneKey", h, zoneId)]
        ELSE s

RECURSIVE RunKeyRecordingHandlers(_, _, _)
\* the capture listeners of document for one keydown, in registration order;
\* a listener removed by an earlier one of the same dispatch is not called
RunKeyRecordingHandlers(s, h, event) ==
    IF h > Len(s.rec.handlers) THEN s
    ELSE IF s.rec.handlers[h].registered
    THEN RunKeyRecordingHandlers(keyRecordingHandler(s, h, event), h + 1, event)
    ELSE RunKeyRecordingHandlers(s, h + 1, event)

\* App.init has completed with every sound loaded; no input has arrived yet
RecordInit ==
    /\ zm = ZoneManagerOf(ZONE_CONFIG)
    /\ appPc = "ready"
    /\ load = [p \in SOUND_FILES |-> "loaded"]
    /\ am = [audioBuffers |-> SOUND_FILES, loadedSounds |-> SOUND_FILES, loadErrors |-> {},
             isContextUnlocked |-> FALSE, unlockPromise |-> 0,
             autoUnlockAttached |-> TRUE, scratchBuffer |-> FALSE,
             listeners |-> AppListenersLoaded]
    /\ ih = [exists |-> TRUE, enabled |-> TRUE, hasFocus |-> TRUE, audioUnlocked |-> FALSE]
    /\ ctxState = "running"
    /\ resumes = <<>>
    /\ nodes = <<>>
    /\ tasks = <<>>
    /\ microtasks = <<>>
    /\ log = <<[op |-> "emit", task |-> 0, arg |-> "loading", n |-> 0],
               [op |-> "emit", task |-> 0, arg |-> "progress", n |-> 1],
               [op |-> "emit", task |-> 0, arg |-> "progress", n |-> 2],
               [op |-> "emit", task |-> 0, arg |-> "loaded", n |-> 0]>>
    /\ ev = [phase |-> "none", kind |-> "", target |-> "", key |-> NoKey,
             clientX |-> 0, clientY |-> 0, prevented |-> FALSE, task |-> 0]
    /\ nEvents = 0
    /\ flash = NoFlash
    /\ rec = NoRecording

\* the click listener of a key hint item (_setupKeyboardHint lines 168-171)
ClickKeyItem(zoneId) ==
    /\ Idle
    /\ ih.exists
    /\ Len(rec.handlers) < MaxRecordings
    /\ LET s == startKeyRecording([w |-> W, zm |-> zm, rec |-> rec,
                                   prevented |-> FALSE, stopped |-> FALSE], zoneId)
       IN  Set(s.w) /\ rec' = s.rec
    /\ UNCHANGED <<zm, appPc, load, ev, nEvents>>

\* one keydown: the gesture listener on window (capture), the recording
\* handlers on document (capture) and, unless one of them stopped the
\* propagation, the InputHandler's listener on document
DocumentKeydown(event) ==
    /\ Idle
    /\ ih.exists
    /\ nEvents < MaxEvents
    /\ nEvents' = nEvents + 1
    /\ LET s0 == [w |-> IF am.autoUnlockAttached THEN HandleGestureUnlockEvent(W) ELSE W,
                  zm |-> zm, rec |-> rec, prevented |-> FALSE, stopped |-> FALSE]
           s1 == RunKeyRecordingHandlers(s0, 1, event)
           h == IF s1.stopped THEN Ignored(s1.w) ELSE HandleKeydown(s1.w, event)
       IN  /\ Set(h.w)
           /\ zm' = s1.zm
           /\ rec' = s1.rec
           /\ ev' = [phase |-> "done", kind |-> "key", target |-> "", key |-> event,
                     clientX |-> 0, clientY |-> 0,
                     prevented |-> (s1.prevented \/ h.prevented), task |-> h.task]
    /\ UNCHANGED <<appPc, load>>

\* the 500 ms timer set by an accepted key runs _cancelKeyRecording
CloseTimer ==
    /\ Idle
    /\ rec.timers > 0
    /\ LET s == cancelKeyRecording([w |-> W, zm |-> zm,
                                    rec |-> [rec EXCEPT !.timers = @ - 1],
                                    prevented |-> FALSE, stopped |-> FALSE])
       IN  Set(s.w) /\ rec' = s.rec
    /\ UNCHANGED <<zm, appPc, load, ev, nEvents>>

RecordNext ==
    \/ \E z \in Zones : ClickKeyItem(z)
    \/ \E key \in RecordKeyEvents : DocumentKeydown(key)
    \/ CloseTimer
    \/ RunMicrotask

RecordSpec == RecordInit /\ [][RecordNext]_vars

----------------------------------------------------------------------------
(* Visual feedback: the ready application with the revert timers of
   activateZone *)

\* App.init has completed with every sound loaded; no input has arrived yet
FlashInit ==
    /\ zm = ZoneManagerOf(ZONE_CONFIG)
    /\ appPc = "ready"
    /\ load = [p \in SOUND_FILES |-> "loaded"]
    /\ am = [audioBuffers |-> SOUND_FILES, loadedSounds |-> SOUND_FILES, loadErrors |-> {},
             isContextUnlocked |-> FALSE, unlockPromise |-> 0,
             autoUnlockAttached |-> TRUE, scratchBuffer |-> FALSE,
             listeners |-> AppListenersLoaded]
    /\ ih = [exists |-> TRUE, enabled |-> TRUE, hasFocus |-> TRUE, audioUnlocked |-> FALSE]
    /\ ctxState \in {"suspended", "running"}
    /\ resumes = <<>>
    /\ nodes = <<>>
    /\ tasks = <<>>
    /\ microtasks = <<>>
    /\ log = <<[op |-> "emit", task |-> 0, arg |-> "loading", n |-> 0],
               [op |-> "emit", task |-> 0, arg |-> "progress", n |-> 1],
               [op |-> "emit", task |-> 0, arg |-> "progress", n |-> 2],
               [op |-> "emit", task |-> 0, arg |-> "loaded", n |-> 0]>>
    /\ ev = [phase |-> "none", kind |-> "", target |-> "", key |-> NoKey,
             clientX |-> 0, clientY |-> 0, prevented |-> FALSE, task |-> 0]
    /\ nEvents = 0
    /\ flash = NoFlash
    /\ rec = NoRecording

\* the callback of a setTimeout of activateZone runs: classList.remove('active')
RevertTimer(z) ==
    /\ Idle
    /\ flash[z].timers > 0
    /\ flash' = [flash EXCEPT ![z] = [active |-> FALSE, timers |-> @.timers - 1]]
    /\ UNCHANGED <<zm, appPc, load, am, ih, ctxState, resumes, nodes, tasks, microtasks, log,
                   ev, nEvents, rec>>

FlashNext ==
    \/ \E target \in {ZoneEl("kick"), ZoneEl("snare")} : PointerDown(target)
    \/ KeyDown(Key("KeyQ", "q", FALSE, FALSE, FALSE, FALSE))
    \/ HandlerPhase
    \/ \E p \in 1..Len(resumes), o \in {"running", "unchanged", "rejected"} : ResumeSettle(p, o)
    \/ \E z \in Zones : RevertTimer(z)
    \/ RunMicrotask

\* the event loop keeps running what is ready: the microtask queue, the
\* remaining listener of a dispatch, a timer that is due; nothing is assumed
\* about the platform's resume()
FlashSpec ==
    /\ FlashInit
    /\ [][FlashNext]_vars
    /\ WF_vars(RunMicrotask \/ HandlerPhase \/ \E z \in Zones : RevertTimer(z))

----------------------------------------------------------------------------
(* Observations used by the properties *)

IsHandlerTask(t) == tasks[t].kind \in {"pointer", "key"}

HandlerTasks == {t \in DOMAIN tasks : IsHandlerTask(t)}

\* positions in log l of the calls op issued by task t
CallsIn(l, op, t) == {i \in DOMAIN l : l[i].op = op /\ l[i].task = t}

Calls(op, t) == CallsIn(log, op, t)

\* a key-down of a key bound to a zone, with no modifier held
BoundPlainKey(k) ==
    /\ k.code \notin {"", "ShiftLeft", "ShiftRight"}
    /\ ~(k.ctrlKey \/ k.altKey \/ k.metaKey \/ k.shiftKey)
    /\ \E z \in Zones : ToLowerCase(k.key) = ToLowerCase(KeyboardKeyOf(z))

\* the step in which the InputHandler's listener runs for the pending event
HandlerStep == ev.phase = "pending" /\ ev'.phase = "done"

\* every run of the gesture listener so far belonged to an event that the
\* InputHandler resolved to a zone and handled
OnlyTriggerEvents ==
    /\ ev.phase # "pending"
    /\ \A t \in DOMAIN tasks :
          tasks[t].kind = "gesture" => t < Len(tasks) /\ IsHandlerTask(t + 1)

----------------------------------------------------------------------------
(* C1 (unlock-once): over any sequence of pointer-down / key-down events that
   resolve to zones, audioContext.resume() is invoked at most once in total,
   also when the first resume was rejected. *)
C1_ResumeAtMostOnce == OnlyTriggerEvents => Len(resumes) <= 1

(* C2: for every input that reaches _triggerZone, activateZone of that input
   is issued before playSound of that same input. *)
C2_VisualBeforeAudio ==
    \A i \in DOMAIN log :
        log[i].op = "play" =>
            \E j \in 1..(i - 1) : log[j].op = "activate" /\ log[j].task = log[i].task

\* a pointer input and a keyboard input have both reached playSound
C2_Witness ==
    \E t1, t2 \in DOMAIN tasks :
        /\ tasks[t1].kind = "pointer" /\ Calls("play", t1) # {}
        /\ tasks[t2].kind = "key" /\ Calls("play", t2) # {}

(* C3 (Scenario C): with the context starting suspended, a pointer-down on a
   valid zone issues activateZone, then unlockAudioContext, then playSound. *)
C3_FlashUnlockTrigger ==
    \A t \in DOMAIN tasks :
        tasks[t].kind = "pointer" =>
            \A u \in {i \in Calls("unlock", t) : log[i].arg = "gesture"} :
                /\ \E a \in Calls("activate", t) : a < u
                /\ \A pl \in Calls("play", t) : u < pl

(* C4: every pointer-down or key-down that passes the gating and resolves
   to a zone is eventually followed by exactly one activateZone call for that
   zone, whether the sound loaded or not, whether the unlock resolved or was
   rejected and whether playSound succeeds or throws: no input is activated
   twice, an input without its activation is one whose unlock attempt has not
   settled or whose continuation is queued, and once the unlock attempt has
   settled the activation follows. *)
UnlockPending(t) ==
    /\ tasks[t].pc = "H_unlock_wait"
    /\ resumes[tasks[t].await].status = "pending"

C4_Inv ==
    \A t \in HandlerTasks :
        /\ Cardinality(Calls("activate", t)) <= 1
        /\ \A i \in Calls("activate", t) : log[i].arg = tasks[t].zone
        /\ Calls("activate", t) = {} =>
              \/ UnlockPending(t)
              \/ /\ tasks[t].pc \in {"H_unlock_wait", "H_unlock_ret"}
                 /\ \E k \in DOMAIN microtasks : microtasks[k] = t

C4_Eventually ==
    \A t \in 1..(2 * MaxEvents) :
        (t \in HandlerTasks /\ ~UnlockPending(t)) ~> (Cardinality(Calls("activate", t)) = 1)

C5_Inv ==
    \A t \in DOMAIN tasks :
        /\ tasks[t].out \in {"pending", "fulfilled"}
        /\ tasks[t].pc = "done" <=> tasks[t].out = "fulfilled"

C5_FailureKeepsGating ==
    (\E i \in DOMAIN log' : i > Len(log) /\ log'[i].op = "playThrow")
        => /\ ih'.enabled = ih.enabled
           /\ ih'.hasFocus = ih.hasFocus
           /\ ih'.exists

C5_NoEscape == []C5_Inv /\ [][C5_FailureKeepsGating]_vars

\* a trigger failed, its handler fulfilled, and a later input was played
C5_Witness ==
    \E t1, t2 \in HandlerTasks :
        /\ t1 < t2
        /\ Calls("playThrow", t1) # {}
        /\ tasks[t1].out = "fulfilled"
        /\ Calls("start", t2) # {}
        /\ tasks[t2].out = "fulfilled"

(* C6: playSound on a path whose load failed throws on every call and
   changes no AudioManager state (nor the context, its resume promises, its
   nodes); playSound on a loaded path never fails for want of a buffer, and
   starts a node at once when the context is unlocked and not suspended. *)
C6_FailedTrigger ==
    /\ \A i \in DOMAIN log :
          (log[i].op = "play" /\ log[i].arg \in am.loadErrors) =>
              /\ i < Len(log)
              /\ log[i + 1].op = "playThrow"
              /\ log[i + 1].task = log[i].task
    /\ \A z \in Zones :
          LET w1 == NewTask(W, "key", z, BaseVolume(z))
              t == Len(w1.tasks)
              r == PlaySound(w1, t, SoundFileOf(z))
          IN  /\ SoundFileOf(z) \in am.loadErrors =>
                    /\ r.r = "throw"
                    /\ r.w.am = am
                    /\ r.w.ctxState = ctxState
                    /\ r.w.resumes = resumes
                    /\ r.w.nodes = nodes
                    /\ r.w.microtasks = microtasks
              /\ SoundFileOf(z) \in am.loadedSounds =>
                    /\ r.r # "throw"
                    /\ (am.isContextUnlocked /\ ctxState # "suspended") =>
                          (r.r = "ok" /\ Len(r.w.nodes) = Len(nodes) + 1)

\* a trigger of a failed path threw, and a later trigger of another path started
C6_Witness ==
    \E i, j \in DOMAIN log :
        /\ i < j
        /\ log[i].op = "playThrow" /\ log[i].arg = "Sound file not found"
        /\ log[j].op = "start"
        /\ \E k \in 1..(i - 1) : log[k].op = "play" /\ log[k].arg # log[j].arg
                                   /\ log[k].task = log[i].task

(* C7: each successful playSound creates exactly one new source node and
   starts it; no playSound stops, restarts or reuses an earlier node: after k
   starts there are k nodes, and a node changes only by ending on its own. *)
C7_Inv ==
    /\ Len(nodes) = Cardinality({i \in DOMAIN log : log[i].op = "start"})
    /\ \A k \in DOMAIN nodes : nodes[k].state \in {"playing", "ended"}

C7_NodesKept ==
    /\ Len(nodes') >= Len(nodes)
    /\ Len(nodes') <= Len(nodes) + 1
    /\ \A k \in DOMAIN nodes :
          /\ nodes'[k].buffer = nodes[k].buffer
          /\ nodes'[k] # nodes[k] =>
                (Len(nodes') = Len(nodes) /\ log' = log /\ nodes'[k].state = "ended")

C7_Overlap == []C7_Inv /\ [][C7_NodesKept]_vars

\* the same sound was started twice and the first node is still playing
C7_Witness ==
    /\ Len(nodes) >= 2
    /\ nodes[1].buffer = nodes[2].buffer
    /\ nodes[1].state = "playing"
    /\ nodes[2].state = "playing"

(* C8 (focus gating): with hasFocus false a key-down of a key bound to a
   zone produces no activateZone and no playSound; with hasFocus true the
   same event starts a trigger for the key's zone, and every trigger that has
   run to completion issued both calls. *)
C8_KeyStep ==
    (HandlerStep /\ ev.kind = "key" /\ ih.enabled /\ BoundPlainKey(ev.key)) =>
        IF ih.hasFocus
        THEN /\ Len(tasks') = Len(tasks) + 1
             /\ ev'.task = Len(tasks')
             /\ tasks'[ev'.task].zone = getZoneByKey(ev.key.key)
             /\ ih.audioUnlocked =>
                   /\ CallsIn(log', "activate", ev'.task) # {}
                   /\ CallsIn(log', "play", ev'.task) # {}
        ELSE /\ log' = log
             /\ tasks' = tasks
             /\ ev'.task = 0

C8_DoneHasBoth ==
    \A t \in HandlerTasks :
        tasks[t].pc = "done" => Calls("activate", t) # {} /\ Calls("play", t) # {}

C8_FocusGating == []C8_DoneHasBoth /\ [][C8_KeyStep]_vars

\* a bound key was pressed while the window had lost focus, and was ignored
C8_Witness ==
    /\ ev.phase = "done" /\ ev.kind = "key" /\ BoundPlainKey(ev.key)
    /\ ev.task = 0 /\ ~ev.prevented
    /\ ih.enabled /\ ~ih.hasFocus
    /\ nEvents = 2

(* C9: while enabled is false the InputHandler's pointer-down and key-down
   listeners do nothing: no default suppression, no unlock call, no
   activateZone, no playSound, no change to audioUnlocked or hasFocus. *)
C9_DisabledStep ==
    (HandlerStep /\ ~ih.enabled) =>
        /\ ~ev'.prevented
        /\ ev'.task = 0
        /\ UNCHANGED <<am, ih, ctxState, resumes, nodes, tasks, microtasks, log>>

C10_PartialLoad ==
    AllSettled(load) =>
        /\ appPc = "ready"
        /\ \E i \in DOMAIN log : log[i].op = "emit" /\ log[i].arg = "loaded"
        /\ \A p \in SOUND_FILES :
              IF load[p] = "loaded"
              THEN p \in am.loadedSounds /\ p \in am.audioBuffers /\ p \notin am.loadErrors
              ELSE p \in am.loadErrors /\ p \notin am.loadedSounds /\ p \notin am.audioBuffers
        /\ Cardinality(am.loadErrors) = 1 =>
              Cardinality(am.loadedSounds) = Cardinality(SOUND_FILES) - 1

\* preloadAll completed with exactly one failed path and the others loaded
C10_Witness ==
    /\ AllSettled(load)
    /\ Cardinality(am.loadErrors) = 1
    /\ Cardinality(am.loadedSounds) = Cardinality(SOUND_FILES) - 1
    /\ Cardinality(am.loadedSounds) >= 1

\* positions in the log of the emissions of an AudioManager event
Emits(event) == {i \in DOMAIN log : log[i].op = "emit" /\ log[i].arg = event}

Settled == {p \in SOUND_FILES : load[p] \in {"loaded", "failed"}}

(* C11 as claimed: a 'progress' event is emitted after every path's
   resolution, success or failure, so that N progress events have been
   emitted when preloadAll completes. *)
C11_ProgressEveryResolution ==
    /\ Cardinality(Emits("progress")) = Cardinality(Settled)
    /\ AllSettled(load) => Cardinality(Emits("progress")) = Cardinality(SOUND_FILES)

(* C11 as amended: a 'progress' event carrying the loaded count is emitted
   after every path that loads, and an 'error' event after every path that
   fails; when preloadAll completes there are as many progress events as
   Loaded paths and the progress and error events together number N. *)
C11_ProgressPerLoaded ==
    /\ Cardinality(Emits("progress")) = Cardinality(am.loadedSounds)
    /\ Cardinality(Emits("error")) = Cardinality(am.loadErrors)
    /\ \A i \in Emits("progress") :
          log[i].n = Cardinality({j \in Emits("progress") : j <= i})
    /\ AllSettled(load) =>
          Cardinality(Emits("progress")) + Cardinality(Emits("error"))
              = Cardinality(SOUND_FILES)

\* preloadAll completed after one failure: one progress event fewer than paths
C11_Witness ==
    /\ appPc = "ready"
    /\ Cardinality(Emits("error")) = 1
    /\ Cardinality(Emits("progress")) = Cardinality(SOUND_FILES) - 1
    /\ Cardinality(Emits("progress")) >= 1

(* C12: preloadAll emits 'loading' once, before any load result, and
   'loaded' exactly once, when and only when every path has settled: no
   'progress' and no per-asset 'error' event comes after it, in every
   interleaving of the fetch and decode completions. *)
C12_LoadingLoaded ==
    /\ Emits("loading") = {1}
    /\ Cardinality(Emits("loaded")) <= 1
    /\ (Emits("loaded") # {}) <=> Settled = SOUND_FILES
    /\ \A i \in Emits("loaded") :
          \A j \in Emits("progress") \cup Emits("error") : j < i

\* 'loaded' was emitted after a progress and an error event, the failure first
C12_Witness ==
    \E i \in Emits("loaded"), j \in Emits("progress"), k \in Emits("error") :
        k < j /\ j < i

(* C13: no pointer or keyboard event is handled by the InputHandler before
   preloadAll has settled: while App.init awaits preloadAll there is no
   InputHandler, no listener invocation of it, no activateZone and no
   playSound, and the InputHandler exists exactly when preloadAll has
   completed and App is ready. *)
C13_Inv ==
    /\ appPc \in {"preloading", "ready"}
    /\ (appPc = "ready") <=> ih.exists
    /\ ih.exists => (Settled = SOUND_FILES /\ Emits("loaded") # {})
    /\ appPc = "preloading" =>
          /\ HandlerTasks = {}
          /\ ev.phase # "pending"
          /\ \A i \in DOMAIN log : log[i].op \notin {"activate", "play", "start"}

C13_HandlersAfterPreload ==
    (ev'.task # 0 /\ ev'.task # ev.task) => (appPc = "ready" /\ Settled = SOUND_FILES)

C13_AwaitPreload == []C13_Inv /\ [][C13_HandlersAfterPreload]_vars

\* a pointer-down on a zone element arrived during the preload and was not handled
C13_Witness ==
    /\ appPc = "preloading"
    /\ ev.phase = "done" /\ ev.kind = "pointer" /\ ev.target = ZoneEl("kick")
    /\ ev.task = 0
    /\ Settled # {}

(* C14: a key-down with ctrl, alt or meta held produces no trigger and no
   visual activation, for every key, the Shift keys included; a ShiftLeft or
   ShiftRight key-down pressed alone is resolved by its code to 'leftshift' /
   'rightshift' and triggers the zone bound to that name. *)
C14_KeyStep ==
    (HandlerStep /\ ev.kind = "key" /\ ih.enabled /\ ih.hasFocus) =>
        /\ (ev.key.ctrlKey \/ ev.key.altKey \/ ev.key.metaKey) =>
              (ev'.task = 0 /\ ~ev'.prevented /\ log' = log /\ tasks' = tasks)
        /\ (ev.key.code \in {"ShiftLeft", "ShiftRight"}
              /\ ~(ev.key.ctrlKey \/ ev.key.altKey \/ ev.key.metaKey)) =>
              LET zone == getZoneByKey(IF ev.key.code = "ShiftLeft"
                                       THEN "leftshift" ELSE "rightshift")
              IN  IF zone = NoZone THEN ev'.task = 0
                  ELSE ev'.task # 0 /\ tasks'[ev'.task].zone = zone

C14_ModifierKeys == [][C14_KeyStep]_vars

\* an input event that resolves to no zone: a pointer-down outside every zone
\* element and key hint, or an unmodified key-down of a key bound to no zone
NoZoneEvent(e) ==
    \/ /\ e.kind = "pointer"
       /\ WalkKeyItem(e.target) = NoZone
       /\ getZoneByElement(e.target) = NoZone
    \/ /\ e.kind = "key"
       /\ e.key.code \notin {"ShiftLeft", "ShiftRight"}
       /\ ~(e.key.ctrlKey \/ e.key.altKey \/ e.key.metaKey \/ e.key.shiftKey)
       /\ getZoneByKey(e.key.key) = NoZone

\* the step in which a new input event reaches window
DispatchStep ==
    /\ ev'.kind \in {"pointer", "key"}
    /\ Dispatch(ev'.kind, ev'.target, ev'.key, <<ev'.clientX, ev'.clientY>>)

(* C15 as claimed: a pointer-down or key-down that resolves to no zone has no
   side effects at all: no default suppression, no unlock attempt, no
   activateZone, no playSound, audioUnlocked unchanged. *)
C15_NoZoneStep ==
    (ih.exists /\ ((DispatchStep /\ NoZoneEvent(ev')) \/ (HandlerStep /\ NoZoneEvent(ev)))) =>
        /\ ~ev'.prevented
        /\ UNCHANGED <<am, ih, ctxState, resumes, nodes, tasks, microtasks, log>>

C15_NoSideEffects == [][C15_NoZoneStep]_vars

(* C15 as amended: for a pointer-down or key-down that resolves to no zone the
   InputHandler's listener has no side effects (no default suppression, no
   unlock attempt, no activateZone, no playSound, audioUnlocked unchanged);
   the AudioManager's window gesture listener, while it is still attached,
   makes its unlockAudioContext({fromGesture: true}) call for such an event
   too, and nothing else happens. *)
C15_HandlerStep ==
    (HandlerStep /\ NoZoneEvent(ev)) =>
        /\ ~ev'.prevented
        /\ ev'.task = 0
        /\ UNCHANGED <<am, ih, ctxState, resumes, nodes, tasks, microtasks, log>>

C15_GestureStep ==
    (DispatchStep /\ NoZoneEvent(ev')) =>
        /\ ~ev'.prevented
        /\ ih' = ih
        /\ nodes' = nodes
        /\ \A i \in DOMAIN log' : i > Len(log) =>
              /\ log'[i].op \in {"unlock", "prime", "resume"}
              /\ tasks'[log'[i].task].kind = "gesture"
        /\ IF am.autoUnlockAttached
           THEN /\ Len(log') > Len(log)
                /\ log'[Len(log) + 1].op = "unlock"
                /\ log'[Len(log) + 1].arg = "gesture"
           ELSE UNCHANGED <<am, ctxState, resumes, tasks, microtasks, log>>

C15_OnlyGestureUnlock == [][C15_HandlerStep /\ C15_GestureStep]_vars

\* a pointer-down on the image, which resolves to no zone, went through both
\* listeners: the gesture listener's resume() is pending, the handler did nothing
C15_Witness ==
    /\ ev.phase = "done" /\ ev.kind = "pointer" /\ ev.target = "img"
    /\ ev.task = 0 /\ ~ev.prevented
    /\ ih.exists /\ ih.enabled /\ ~ih.audioUnlocked
    /\ Len(tasks) = 1 /\ tasks[1].kind = "gesture"
    /\ Len(resumes) = 1 /\ resumes[1].status = "pending"

\* the step in which the recording popup's keydown listener runs
RecordStep ==
    /\ ev'.kind = "record"
    /\ \E z \in Zones : ev'.target = HintItem(z) /\ RecordingKeydown(z, ev'.key)

(* C16: after zone z is rebound to key k by the key recording, getZoneByKey(k)
   returns z and z's previous key resolves to no zone; a key-down the
   recording does not accept rebinds nothing. *)
C16_RebindStep ==
    RecordStep =>
        LET z == CHOOSE z \in Zones : ev'.target = HintItem(z)
            k == ToLowerCase(ev'.key.key)
            old == zm.zones[z].keyboardKey
        IN  IF ev'.prevented
            THEN /\ ZoneForKey(zm', k) = z
                 /\ zm'.zones[z].keyboardKey = k
                 /\ (old # "" /\ ToLowerCase(old) # k) => ZoneForKey(zm', old) = NoZone
            ELSE zm' = zm

C16_Rebind == [][C16_RebindStep]_vars

\* kick was rebound to x: its configured key resolves to no zone any more and
\* a later key-down of x played kick's sound
C16_Witness ==
    /\ getZoneByKey("x") = "kick"
    /\ \A c \in Configs : getZoneByKey(c["kick"].keyboardKey) = NoZone
    /\ ev.kind = "key" /\ ev.key.key = "x" /\ ev.task # 0
    /\ tasks[ev.task].zone = "kick"
    /\ \E i \in Calls("start", ev.task) : log[i].arg = SoundFileOf("kick")

\* String.prototype.toUpperCase on the keys the model uses
ToUpperCase(k) ==
    CASE k = "q" -> "Q"
      [] k = "w" -> "W"
      [] k = "x" -> "X"
      [] k = "leftshift" -> "LEFTSHIFT"
      [] OTHER -> k

KeyNames == {"q", "w", "x", "Q", "W", "X", "leftshift", "LEFTSHIFT", "rightshift"}

(* C17: the key index is injective over the zones: no two zones share a
   keyboard key and every index entry belongs to the one zone configured
   with that key; for every zone z with key k, getZoneByKey returns z for k
   in lower and in upper case, and it returns no zone for a key bound to no
   zone. *)
C17_KeyIndexInjective ==
    /\ \A z1, z2 \in Zones :
          (z1 # z2 /\ zm.zones[z1].keyboardKey # "") =>
              ToLowerCase(zm.zones[z1].keyboardKey) # ToLowerCase(zm.zones[z2].keyboardKey)
    /\ \A z \in Zones :
          LET k == zm.zones[z].keyboardKey
          IN  k # "" => /\ getZoneByKey(k) = z
                        /\ getZoneByKey(ToLowerCase(k)) = z
                        /\ getZoneByKey(ToUpperCase(ToLowerCase(k))) = z
    /\ \A k \in KeyNames :
          (\A z \in Zones : ToLowerCase(zm.zones[z].keyboardKey) # ToLowerCase(k))
              => getZoneByKey(k) = NoZone
    /\ \A k \in DOMAIN zm.zoneByKey :
          ToLowerCase(zm.zones[zm.zoneByKey[k]].keyboardKey) = k

\* kick is configured with the key Q, and a key-down of q played it
C17_Witness ==
    /\ zm.zones["kick"].keyboardKey = "Q"
    /\ getZoneByKey("x") = NoZone
    /\ ev.kind = "key" /\ ev.key.key = "q" /\ ev.task # 0
    /\ tasks[ev.task].zone = "kick"
    /\ Calls("start", ev.task) # {}

\* the fields of a PointerEvent the handler reads
PointerEvent(target, pos) == [target |-> target, clientX |-> pos[1], clientY |-> pos[2]]

\* a world with the volumes of its handler invocations left out
WithoutVolumes(w) ==
    [w EXCEPT !.tasks = [i \in DOMAIN w.tasks |-> [w.tasks[i] EXCEPT !.volume = 0]]]

(* C18: a pointer-down on the key hint of zone z (the keyboard-key-item or a
   descendant of it) triggers the same zone as a pointer-down on z's own
   element: in every reachable state the handler does for the one what it
   does for the other (same suppression, same activateZone, same sound, same
   unlock calls), apart from the volume it computes; and every such press on a
   hint starts a trigger for z. *)
C18_SameAsZoneElement ==
    \A z \in Zones : \A e \in {HintItem(z), HintSpan(z)} : \A pos \in {Centre, <<0, 0>>} :
        LET a == HandlePointerDown(W, PointerEvent(e, pos))
            b == HandlePointerDown(W, PointerEvent(ZoneEl(z), pos))
        IN  /\ a.prevented = b.prevented
            /\ a.task = b.task
            /\ WithoutVolumes(a.w) = WithoutVolumes(b.w)
            /\ ih.enabled => (a.task # 0 /\ a.w.tasks[a.task].zone = z)

C18_HintStep ==
    (HandlerStep /\ ev.kind = "pointer" /\ ih.enabled
        /\ \E z \in Zones : ev.target \in {HintItem(z), HintSpan(z)}) =>
        LET z == CHOOSE z \in Zones : ev.target \in {HintItem(z), HintSpan(z)}
        IN  /\ ev'.prevented
            /\ ev'.task = Len(tasks) + 1
            /\ tasks'[ev'.task].zone = z
            /\ tasks'[ev'.task].soundFile = SoundFileOf(z)
            /\ ih.audioUnlocked =>
                  /\ \E i \in CallsIn(log', "activate", ev'.task) : log'[i].arg = z
                  /\ \E i \in CallsIn(log', "play", ev'.task) : log'[i].arg = SoundFileOf(z)

C18_HintTriggersZone == []C18_SameAsZoneElement /\ [][C18_HintStep]_vars

\* kick was played by a press on its element, off centre, and then by a press
\* on the key span of its hint
C18_Witness ==
    /\ ev.kind = "pointer" /\ ev.target = HintSpan("kick") /\ ev.task # 0
    /\ tasks[ev.task].zone = "kick"
    /\ \E i \in Calls("start", ev.task) : log[i].arg = SoundFileOf("kick")
    /\ \E t \in HandlerTasks :
          /\ t < ev.task
          /\ tasks[t].kind = "pointer" /\ tasks[t].zone = "kick"
          /\ tasks[t].volume < BaseVolume("kick")
          /\ \E i \in Calls("start", t) : log[i].arg = SoundFileOf("kick")

\* the node created by the start logged at position i
NodeOfStart(i) == Cardinality({j \in DOMAIN log : log[j].op = "start" /\ j <= i})

(* C19: the node started by a trigger has the requested volume as its gain:
   the volume the InputHandler hands to playSound (position-based, or the
   zone's base volume, default 1.0) is the gain of the node connected to the
   output. *)
C19_GainIsVolume ==
    \A i \in DOMAIN log :
        log[i].op = "start" => nodes[NodeOfStart(i)].gain = tasks[log[i].task].volume

(* C20: for every press position inside a zone's bounds
   _calculateVolumeFromClickPosition returns
   baseVolume * (1 - min(distanceToCenter / distanceCenterToCorner, 1)):
   baseVolume at the centre, 0 at a corner, always within [0, baseVolume],
   and that is the volume of the trigger a press on the zone's element starts. *)
C20_Formula ==
    \A z \in Zones : \A pos \in Presses :
        LET v == CalculateVolumeFromClickPosition(PointerEvent(ZoneEl(z), pos), z)
            rect == RectOf(z)
            \* squared distances, doubled coordinates keep the centre integral
            d2 == (2 * pos[1] - rect.width) * (2 * pos[1] - rect.width)
                     + (2 * pos[2] - rect.height) * (2 * pos[2] - rect.height)
            m2 == rect.width * rect.width + rect.height * rect.height
        IN  /\ v \in 0..BaseVolume(z)
            /\ pos = Centre => v = BaseVolume(z)
            /\ d2 = m2 => v = 0
            \* (baseVolume - v) / baseVolume = distance / maxDistance, squared
            /\ (BaseVolume(z) - v) * (BaseVolume(z) - v) * m2
                  = BaseVolume(z) * BaseVolume(z) * d2

C20_PressStep ==
    (HandlerStep /\ ev.kind = "pointer" /\ ih.enabled
        /\ \E z \in Zones : ev.target = ZoneEl(z)) =>
        LET z == CHOOSE z \in Zones : ev.target = ZoneEl(z)
        IN  /\ ev'.task # 0
            /\ tasks'[ev'.task].volume
                  = CalculateVolumeFromClickPosition(
                        PointerEvent(ev.target, <<ev.clientX, ev.clientY>>), z)
            /\ (ev.clientX = 0 /\ ev.clientY = 0) => tasks'[ev'.task].volume = 0
            /\ <<ev.clientX, ev.clientY>> = Centre => tasks'[ev'.task].volume = BaseVolume(z)

LoadedKeyTasks ==
    {t \in HandlerTasks : tasks[t].kind = "key" /\ tasks[t].soundFile \in am.loadedSounds}

(* C21 (Scenario A): two key-downs, the first bound to zone A and the second
   to zone B, both sounds loaded, the second possibly arriving while the first
   handler is suspended: each handler calls playSound exactly once, A's call
   is issued before B's, the nodes they start are started in the same order,
   and neither handler throws, whether the first event has to unlock the context
   or not. *)
C21_TwoTriggers ==
    \A t1, t2 \in LoadedKeyTasks :
        t1 < t2 =>
            /\ Cardinality(Calls("play", t1)) <= 1
            /\ Cardinality(Calls("play", t2)) <= 1
            /\ \A j \in Calls("play", t2) : \E i \in Calls("play", t1) : i < j
            /\ \A i \in Calls("start", t1), j \in Calls("start", t2) : i < j
            /\ tasks[t1].out # "rejected" /\ tasks[t2].out # "rejected"
            /\ (tasks[t1].pc = "done" /\ tasks[t2].pc = "done") =>
                  /\ Cardinality(Calls("play", t1) \cup Calls("play", t2)) = 2
                  /\ Calls("playThrow", t1) = {} => Calls("start", t1) # {}
                  /\ Calls("playThrow", t2) = {} => Calls("start", t2) # {}

\* q then w were pressed while the context was suspended, the second while the
\* first handler awaited the resume; both handlers made their own unlock call
\* and both sounds were started, kick first
C21_Witness ==
    \E t1, t2 \in LoadedKeyTasks :
        /\ t1 < t2
        /\ tasks[t1].zone = "kick" /\ tasks[t2].zone = "snare"
        /\ Calls("unlock", t1) # {} /\ Calls("unlock", t2) # {}
        /\ \E u1 \in Calls("unlock", t1), u2 \in Calls("unlock", t2), r \in DOMAIN log :
              /\ log[u1].arg = "gesture" /\ log[u2].arg = "gesture"
              /\ log[r].op = "resume"
              /\ \A a \in Calls("activate", t1) : u2 < a
        /\ tasks[t1].pc = "done" /\ tasks[t2].pc = "done"
        /\ \E i \in Calls("start", t1), j \in Calls("start", t2) : i < j

\* the AudioContext constructor threw inside new AudioManager
ContextCreationFailed == \E i \in DOMAIN log : log[i].op = "initThrow"

(* C22: if creating the AudioContext throws, the AudioManager constructor
   throws, App.init reports the error once and rejects, App.isReady stays
   false and no InputHandler is created: whatever input follows, no listener
   runs, and no unlock, no resume, no activateZone and no playSound is ever
   attempted. *)
C22_Inv ==
    ContextCreationFailed =>
        /\ appPc = "failed"
        /\ ~ih.exists
        /\ ~am.autoUnlockAttached
        /\ Cardinality({i \in DOMAIN log : log[i].op = "handleError"}) = 1
        /\ \A i \in DOMAIN log : log[i].op \in {"initThrow", "handleError"}
        /\ tasks = <<>> /\ resumes = <<>> /\ nodes = <<>> /\ microtasks = <<>>
        /\ ev.phase # "pending" /\ ev.task = 0 /\ ~ev.prevented
        /\ \A p \in SOUND_FILES : load[p] = "unrequested"

C22_FailedStep == appPc = "failed" => UNCHANGED <<zm, appPc, load, am, ih, ctxState, log>>

C22_ContextUnsupported == []C22_Inv /\ [][C22_FailedStep]_vars

\* after the failed construction a pointer-down on a zone element and a
\* key-down of a bound key arrived, and nothing happened
C22_Witness ==
    /\ ContextCreationFailed
    /\ appPc = "failed"
    /\ nEvents = 2
    /\ ev.phase = "done" /\ ev.kind = "key" /\ BoundPlainKey(ev.key)
    /\ Len(log) = 2

\* the resume() promises that have not settled
InFlight == {p \in DOMAIN resumes : resumes[p].status = "pending"}

\* positions of the log entries added by the step
Added == {i \in DOMAIN log' : i > Len(log)}

(* C23: while a resume() issued by unlockAudioContext has not settled, every
   further unlockAudioContext call, from an InputHandler handler, from the
   gesture listener or from playSound, awaits that same promise and calls
   resume() no second time: at most one resume is in flight at any time, and
   it is the one kept in _unlockPromise. *)
C23_Inv ==
    /\ Cardinality(InFlight) <= 1
    /\ \A p \in InFlight :
          /\ am.unlockPromise = p
          /\ ~am.isContextUnlocked
          /\ \A k \in DOMAIN resumes[p].waiters :
                LET t == resumes[p].waiters[k]
                IN  tasks[t].await = p
                       /\ tasks[t].pc \in {"H_unlock_wait", "P_unlock_wait", "G_unlock_wait"}

C23_JoinStep ==
    \A p \in InFlight :
        /\ Len(resumes') = Len(resumes)
        /\ \A i \in Added :
              /\ log'[i].op # "resume"
              /\ log'[i].op = "unlock" =>
                    /\ tasks'[log'[i].task].await = p
                    /\ \E k \in DOMAIN resumes'[p].waiters : resumes'[p].waiters[k] = log'[i].task
                    /\ resumes'[p].status = "pending"

C23_SingleFlight == []C23_Inv /\ [][C23_JoinStep]_vars

\* a second resume() is in flight after the first was settled without
\* unlocking, and three calls await it: playSound of the first input, the
\* gesture listener and playSound of the second input
C23_Witness ==
    /\ Len(resumes) = 2
    /\ resumes[1].status # "pending"
    /\ resumes[2].status = "pending"
    /\ Len(resumes[2].waiters) = 3
    /\ \E k \in DOMAIN resumes[2].waiters : tasks[resumes[2].waiters[k]].kind = "gesture"
    /\ \E k \in DOMAIN resumes[2].waiters : tasks[resumes[2].waiters[k]].pc = "P_unlock_wait"
    /\ \E k \in DOMAIN resumes[1].waiters :
          /\ IsHandlerTask(resumes[1].waiters[k])
          /\ resumes[1].waiters[k] # resumes[1].waiters[1]

\* handler invocation t made its own unlockAudioContext({fromGesture: true}) call
MadeUnlockCall(l, t) == \E i \in CallsIn(l, "unlock", t) : l[i].arg = "gesture"

(* C24: on a resolved input handled while audioUnlocked is false, playSound
   for that input is not called until the unlockAudioContext({fromGesture:
   true}) call made by that handler has settled, resolved or rejected, and it
   is then called in both outcomes: no playSound call while the call is
   awaited or its settlement is not yet delivered, a playSound call in the
   very step that delivers it. *)
C24_Inv ==
    \A t \in HandlerTasks :
        /\ MadeUnlockCall(log, t) =>
              /\ tasks[t].pc \in {"H_unlock_wait", "H_unlock_ret"} => Calls("play", t) = {}
              /\ tasks[t].pc \notin {"H_unlock_wait", "H_unlock_ret"} => Calls("play", t) # {}
              /\ \A u \in Calls("unlock", t), pl \in Calls("play", t) :
                    log[u].arg = "gesture" => u < pl

C24_PlayStep ==
    \A t \in DOMAIN tasks :
        (IsHandlerTask(t) /\ MadeUnlockCall(log, t)) =>
            IF tasks[t].pc = "H_unlock_ret" /\ microtasks # <<>> /\ Head(microtasks) = t
            THEN /\ tasks[t].res \in {"ok", "throw"}
                 /\ Cardinality(CallsIn(log', "play", t)) = 1
                 /\ CallsIn(log, "play", t) = {}
            ELSE CallsIn(log', "play", t) = CallsIn(log, "play", t)

C24_HandlerStep ==
    (HandlerStep /\ ev'.task # 0 /\ ~ih.audioUnlocked) =>
        /\ MadeUnlockCall(log', ev'.task)
        /\ CallsIn(log', "play", ev'.task) = {}
        /\ tasks'[ev'.task].pc \in {"H_unlock_wait", "H_unlock_ret"}

C24_UnlockBeforePlay == []C24_Inv /\ [][C24_PlayStep /\ C24_HandlerStep]_vars

\* two inputs were handled while audioUnlocked was false; the awaited resume()
\* was rejected, and playSound was called for both after that
C24_Witness ==
    \E t1, t2 \in HandlerTasks :
        /\ t1 < t2
        /\ MadeUnlockCall(log, t1) /\ MadeUnlockCall(log, t2)
        /\ resumes[1].status = "rejected"
        /\ tasks[t1].await # 0 /\ tasks[t2].await # 0
        /\ Calls("play", t1) # {} /\ Calls("play", t2) # {}

(* C25: if playSound is called for a loaded sound while the audio context
   state is 'suspended', also after an earlier successful unlock
   (isContextUnlocked true, the context suspended again by backgrounding),
   the unlock protocol is run and a resume request is issued before the
   playback node is started: the callback that makes the call leaves a
   resume() in flight which the call awaits, and starts no node. *)
C25_PlayStep ==
    \A i \in Added :
        (log'[i].op = "play" /\ log'[i].arg \in am.loadedSounds /\ ctxState = "suspended") =>
            LET t == log'[i].task
            IN  /\ \E u \in Added : u > i /\ log'[u].op = "unlock" /\ log'[u].task = t
                /\ \A s \in Added : ~(log'[s].op = "start" /\ log'[s].task = t)
                /\ \E p \in DOMAIN resumes' :
                      /\ resumes'[p].status = "pending"
                      /\ tasks'[t].await = p

C25_SelfHealing == [][C25_PlayStep]_vars

\* the handler invocations whose own unlock attempt has settled and been
\* delivered to the handler
UnlockDelivered ==
    {t \in HandlerTasks : MadeUnlockCall(log, t)
                            /\ tasks[t].pc \notin {"H_unlock_wait", "H_unlock_ret"}}

(* C26: InputHandler.audioUnlocked starts false, becomes true when the first
   unlock attempt made by a handler settles, whether it resolved or rejected,
   and never returns to false; once it is true no InputHandler handler makes
   an unlockAudioContext call again. *)
C26_Inv ==
    /\ ~ih.exists => ~ih.audioUnlocked
    /\ ih.audioUnlocked <=> UnlockDelivered # {}

C26_FlagStep ==
    /\ ih.audioUnlocked => ih'.audioUnlocked
    /\ (ih.exists /\ ~ih.audioUnlocked /\ ih'.audioUnlocked) =>
          /\ microtasks # <<>>
          /\ tasks[Head(microtasks)].pc = "H_unlock_ret"
          /\ tasks[Head(microtasks)].res \in {"ok", "throw"}
    /\ (~ih.exists /\ ih'.exists) => ~ih'.audioUnlocked
    /\ ih.audioUnlocked =>
          \A i \in Added : ~(log'[i].op = "unlock" /\ log'[i].arg = "gesture"
                               /\ tasks'[log'[i].task].kind \in {"pointer", "key"})
    /\ (HandlerStep /\ ev'.task # 0) =>
          (MadeUnlockCall(log', ev'.task) <=> ~ih.audioUnlocked)

C26_UnlockFlag == []C26_Inv /\ [][C26_FlagStep]_vars

\* the first input's unlock attempt was rejected and set the flag; the second
\* input was handled without an unlock call of its handler although the
\* context was still locked
C26_Witness ==
    \E t1, t2 \in HandlerTasks :
        /\ t1 < t2
        /\ MadeUnlockCall(log, t1)
        /\ tasks[t1].await # 0
        /\ resumes[1].status = "rejected"
        /\ ih.audioUnlocked
        /\ ~MadeUnlockCall(log, t2)
        /\ ~am.isContextUnlocked
        /\ Calls("play", t2) # {}

\* the first task of the microtask queue is an unlockAudioContext call whose
\* awaited resume() was rejected
RejectionDelivered ==
    /\ microtasks # <<>>
    /\ tasks[Head(microtasks)].pc \in {"H_unlock_wait", "P_unlock_wait", "G_unlock_wait"}
    /\ resumes[tasks[Head(microtasks)].await].status = "rejected"

(* C27: if the resume() awaited by unlockAudioContext rejects, the call
   rejects, isContextUnlocked remains false, the in-flight promise is cleared
   and the gesture listener stays attached; a later unlockAudioContext call
   then issues a fresh resume(), which can succeed. *)
C27_RejectStep ==
    RejectionDelivered =>
        LET t == Head(microtasks)
        IN  /\ am'.unlockPromise = 0
            /\ ~am.isContextUnlocked /\ ~am'.isContextUnlocked
            /\ am'.autoUnlockAttached = am.autoUnlockAttached
            /\ resumes' = resumes
            /\ log' = log
            /\ CASE tasks[t].pc = "H_unlock_wait" ->
                        tasks'[t].pc = "H_unlock_ret" /\ tasks'[t].res = "throw"
                 [] tasks[t].pc = "P_unlock_wait" ->
                        tasks'[t].pc = "P_unlock_ret" /\ tasks'[t].res = "throw"
                 [] OTHER -> tasks'[t].pc = "done"

C27_FreshResume ==
    (am.unlockPromise = 0 /\ ~am.isContextUnlocked
        /\ ctxState \in {"suspended", "interrupted"}) =>
        \A fromGesture \in BOOLEAN :
            LET w1 == NewTask(W, "key", "kick", Unity)
                t == Len(w1.tasks)
                u == UnlockAudioContext(w1, t, fromGesture)
            IN  /\ u.r = "await"
                /\ Len(u.w.resumes) = Len(resumes) + 1
                /\ u.w.resumes[Len(u.w.resumes)].status = "pending"
                /\ u.w.am.unlockPromise = Len(u.w.resumes)
                /\ u.w.tasks[t].await = Len(u.w.resumes)

C27_RetryAfterRejection == []C27_FreshResume /\ [][C27_RejectStep]_vars

\* the first resume() was rejected, a later call issued a second one, which
\* resolved with the context running: the context is unlocked and a node started
C27_Witness ==
    /\ Len(resumes) = 2
    /\ resumes[1].status = "rejected"
    /\ resumes[2].status = "fulfilled"
    /\ am.isContextUnlocked /\ am.unlockPromise = 0 /\ ~am.autoUnlockAttached
    /\ ctxState = "running"
    /\ \E i \in DOMAIN log : log[i].op = "start"

\* a world without its call log
WithoutLog(w) == [w EXCEPT !.log = <<>>]

(* C28: calling unlockAudioContext when the context is already unlocked
   returns without calling resume(), without starting a priming node and
   without changing any AudioManager state; calling it once, twice or not at
   all leaves the same state. *)
C28_NoOp ==
    am.isContextUnlocked =>
        \A g1, g2 \in BOOLEAN :
            LET w1 == NewTask(W, "key", "kick", Unity)
                t == Len(w1.tasks)
                once == UnlockAudioContext(w1, t, g1)
                twice == UnlockAudioContext(once.w, t, g2)
            IN  /\ once.r = "return" /\ twice.r = "return"
                /\ WithoutLog(once.w) = WithoutLog(w1)
                /\ WithoutLog(twice.w) = WithoutLog(w1)
                /\ Len(once.w.log) = Len(log) + 1
                /\ Len(twice.w.log) = Len(log) + 2
                /\ \A i \in DOMAIN twice.w.log : i > Len(log) => twice.w.log[i].op = "unlock"

C28_CallStep ==
    (am.isContextUnlocked /\ \E i \in Added : log'[i].op = "unlock") =>
        /\ am' = am
        /\ resumes' = resumes
        /\ ctxState' = ctxState
        /\ \A i \in Added : log'[i].op \notin {"resume", "prime"}

C28_UnlockedNoOp == []C28_NoOp /\ [][C28_CallStep]_vars

\* the context was unlocked without a resume() and then suspended by
\* backgrounding; playSound called unlockAudioContext on it, which did nothing
C28_Witness ==
    /\ am.isContextUnlocked
    /\ ctxState = "suspended"
    /\ resumes = <<>>
    /\ \E i, j \in DOMAIN log :
          /\ i < j
          /\ log[i].op = "unlock" /\ log[i].arg = "noGesture"
          /\ log[j].op = "start" /\ log[j].task = log[i].task
    /\ \A i \in DOMAIN log : log[i].op # "prime"

\* the first task of the microtask queue is an unlockAudioContext call whose
\* awaited resume() resolved
ResolutionDelivered ==
    /\ microtasks # <<>>
    /\ tasks[Head(microtasks)].pc \in {"H_unlock_wait", "P_unlock_wait", "G_unlock_wait"}
    /\ resumes[tasks[Head(microtasks)].await].status = "fulfilled"

(* C29: isContextUnlocked becomes true only in a step in which
   audioContext.state reports 'running'; it is never set true while the state
   is suspended, interrupted or closed, in particular not when resume()
   resolved but the state did not become running. *)
C29_MarkStep ==
    /\ (~am.isContextUnlocked /\ am'.isContextUnlocked) =>
          (ctxState = "running" /\ ctxState' = "running")
    /\ ResolutionDelivered =>
          /\ am'.isContextUnlocked <=> (ctxState = "running")
          /\ am'.unlockPromise = 0
          /\ ctxState # "running" => am'.autoUnlockAttached = am.autoUnlockAttached

C29_Inv == ctxState \in {"suspended", "interrupted", "running"}

C30_LogOrder ==
    \A i \in DOMAIN log :
        /\ log[i].op = "prime" =>
              /\ i > 1
              /\ log[i - 1].op = "unlock" /\ log[i - 1].arg = "gesture"
              /\ log[i - 1].task = log[i].task
        /\ log[i].op = "resume" =>
              /\ i > 1
              /\ log[i - 1].task = log[i].task
              /\ \/ log[i - 1].op = "prime"
                 \/ log[i - 1].op = "unlock" /\ log[i - 1].arg = "noGesture"
        /\ (log[i].op = "unlock" /\ log[i].arg = "noGesture" /\ i < Len(log)) =>
              log[i + 1].op # "prime"

C30_CallStep ==
    \A i \in Added :
        (log'[i].op = "unlock" /\ ~am.isContextUnlocked
            /\ ctxState \in {"suspended", "interrupted"}) =>
            IF log'[i].arg = "gesture"
            THEN /\ i < Len(log')
                 /\ log'[i + 1].op = "prime" /\ log'[i + 1].task = log'[i].task
                 /\ am'.scratchBuffer
                 /\ am.unlockPromise = 0 =>
                       /\ i + 1 < Len(log')
                       /\ log'[i + 2].op = "resume" /\ log'[i + 2].task = log'[i].task
            ELSE /\ \A j \in Added : log'[j].op # "prime"
                 /\ am.unlockPromise = 0 =>
                       /\ i < Len(log')
                       /\ log'[i + 1].op = "resume" /\ log'[i + 1].task = log'[i].task

C30_PrimeBeforeResume == []C30_LogOrder /\ [][C30_CallStep]_vars

\* a gesture call primed and then requested resume(), which was rejected;
\* playSound's call then requested a second resume() without priming
C30_Witness ==
    /\ Len(resumes) = 2
    /\ \E i \in DOMAIN log :
          /\ i + 2 <= Len(log)
          /\ log[i].op = "unlock" /\ log[i].arg = "gesture"
          /\ log[i + 1].op = "prime"
          /\ log[i + 2].op = "resume"
    /\ \E i \in DOMAIN log :
          /\ i + 1 <= Len(log)
          /\ log[i].op = "unlock" /\ log[i].arg = "noGesture"
          /\ log[i + 1].op = "resume"
    /\ Cardinality({i \in DOMAIN log : log[i].op = "prime"}) = 2

(* C31: within preloadAll each path moves from Pending to Loaded or to Failed
   exactly once and never to both: a settled path stays as it settled, once
   preloadAll has completed every path is in exactly one of loadedSounds and
   loadErrors, and no later operation (playSound, unlock, input handling)
   removes a stored buffer or changes either set. *)
C31_Inv ==
    /\ am.loadedSounds \cap am.loadErrors = {}
    /\ \A p \in SOUND_FILES :
          /\ p \in am.loadedSounds <=> load[p] = "loaded"
          /\ p \in am.loadErrors <=> load[p] = "failed"
          /\ p \in am.audioBuffers => p \in am.loadedSounds
    /\ appPc = "ready" => am.loadedSounds \cup am.loadErrors = SOUND_FILES

C31_Step ==
    /\ \A p \in SOUND_FILES :
          /\ load[p] \in {"loaded", "failed"} => load'[p] = load[p]
          /\ p \in am.loadedSounds => p \in am'.loadedSounds
          /\ p \in am.loadErrors => p \in am'.loadErrors
          /\ p \in am.audioBuffers => p \in am'.audioBuffers
    /\ Cardinality((am'.loadedSounds \cup am'.loadErrors)
                      \ (am.loadedSounds \cup am.loadErrors)) <= 1
    /\ appPc = "ready" =>
          /\ am'.audioBuffers = am.audioBuffers
          /\ am'.loadedSounds = am.loadedSounds
          /\ am'.loadErrors = am.loadErrors

C31_SettledOnce == []C31_Inv /\ [][C31_Step]_vars

\* one path loaded and the other failed; after the preload the context was
\* unlocked by a resume(), the loaded sound was played and the failed one
\* refused, and the buffer is still stored
C31_Witness ==
    /\ appPc = "ready"
    /\ Cardinality(am.loadedSounds) = 1 /\ Cardinality(am.loadErrors) = 1
    /\ am.audioBuffers = am.loadedSounds
    /\ am.isContextUnlocked /\ Len(resumes) >= 1
    /\ \E i, j \in DOMAIN log :
          /\ log[i].op = "start" /\ log[i].arg \in am.audioBuffers
          /\ log[j].op = "playThrow" /\ log[j].arg = "Sound file not found"

(* C32: playSound returns as soon as the node's start call has been issued
   and the input handler completes without waiting for playback to end: the
   step that issues a start also completes its handler, whatever nodes are
   playing, and once no microtask and no resume() is outstanding every
   handler has completed although nodes are still playing. *)
C32_Inv ==
    /\ \A i \in DOMAIN log :
          log[i].op = "start" =>
              tasks[log[i].task].pc = "done" /\ tasks[log[i].task].out = "fulfilled"
    /\ (microtasks = <<>> /\ InFlight = {}) =>
          \A t \in DOMAIN tasks : tasks[t].pc = "done"

C32_StartStep ==
    \A i \in Added :
        log'[i].op = "start" =>
            /\ tasks'[log'[i].task].pc = "done"
            /\ Len(nodes') = Len(nodes) + 1
            /\ nodes'[Len(nodes')].state = "playing"
            /\ \A k \in DOMAIN nodes : nodes'[k] = nodes[k]

C32_NoWaitForPlayback == []C32_Inv /\ [][C32_StartStep]_vars

\* two inputs started two different sounds; both handlers have completed
\* and both nodes are still playing
C32_Witness ==
    /\ Idle
    /\ Len(nodes) = 2
    /\ nodes[1].buffer # nodes[2].buffer
    /\ nodes[1].state = "playing" /\ nodes[2].state = "playing"
    /\ \E i, j \in DOMAIN log :
          /\ i < j
          /\ log[i].op = "start" /\ log[j].op = "start"
          /\ log[i].task # log[j].task
          /\ tasks[log[i].task].pc = "done" /\ tasks[log[j].task].pc = "done"

(* C34: no activateZone and no playSound is issued at a moment when
   InputHandler.enabled is false, including by a handler that passed the
   enabled check, suspended at the unlock await and resumed after disable()
   was called in between. *)
C34_CallStep ==
    (\E i \in Added : log'[i].op \in {"activate", "play"}) => ih.enabled /\ ih'.enabled

C34_NoCallWhileDisabled == [][C34_CallStep]_vars

(* C35: if the resume() of the first unlock never settles, inputs that arrive
   afterwards are still handled: each later input that resolves to a zone
   gets its visual activation without waiting on the pending unlock. Stated
   on the quiescent states in which that resume() is still pending (nothing
   can run until it settles): every handler started after the first one has
   issued its activateZone. *)
C35_FirstHandler ==
    CHOOSE t \in DOMAIN tasks :
        IsHandlerTask(t) /\ \A u \in DOMAIN tasks : IsHandlerTask(u) => t <= u

C35_LaterInputsActivated ==
    (Idle /\ Len(resumes) = 1 /\ resumes[1].status = "pending") =>
        \A t \in DOMAIN tasks :
            (IsHandlerTask(t) /\ t # C35_FirstHandler) => Calls("activate", t) # {}

(* C38: a key-down for a non-Shift key with the shift flag set is ignored (no
   trigger, no visual activation, no default suppression), also when the
   lower-cased key is bound to a zone; the only key-downs handled while shift
   is down are those whose code is ShiftLeft or ShiftRight. *)
C38_KeyStep ==
    (HandlerStep /\ ev.kind = "key" /\ ev.key.shiftKey) =>
        /\ ev.key.code \notin {"ShiftLeft", "ShiftRight"} =>
              /\ ev'.task = 0 /\ ~ev'.prevented
              /\ log' = log /\ tasks' = tasks /\ nodes' = nodes /\ ih' = ih
        /\ ev'.task # 0 => ev.key.code \in {"ShiftLeft", "ShiftRight"}

C38_ShiftedKeyIgnored == [][C38_KeyStep]_vars

\* Shift+Q was ignored by an enabled, focused InputHandler whose zone manager
\* binds q, after a ShiftLeft key-down or a plain key was handled
C38_Witness ==
    /\ ev.phase = "done" /\ ev.kind = "key"
    /\ ev.key.shiftKey /\ ev.key.code = "KeyQ"
    /\ ih.enabled /\ ih.hasFocus
    /\ ZoneForKey(zm, ToLowerCase(ev.key.key)) # NoZone
    /\ ev.task = 0 /\ ~ev.prevented
    /\ \E t \in DOMAIN tasks : tasks[t].kind = "key"

(* C40: in every reachable state a path has a stored buffer exactly when it
   is marked loaded, so playSound never raises 'Sound not yet loaded', and
   every playSound failure for a path that is not loaded is 'Sound file not
   found'. *)
C40_Inv ==
    /\ \A p \in SOUND_FILES : p \in am.audioBuffers <=> p \in am.loadedSounds
    /\ \A i \in DOMAIN log :
          log[i].op = "playThrow" => log[i].arg # "Sound not yet loaded"

C40_ThrowStep ==
    \A i \in Added :
        (log'[i].op = "playThrow" /\ tasks'[log'[i].task].soundFile \notin am.loadedSounds) =>
            log'[i].arg = "Sound file not found"

C40_BufferIffLoaded == []C40_Inv /\ [][C40_ThrowStep]_vars

\* playSound was refused for the path whose load failed; the other path has
\* its buffer and its loaded mark
C40_Witness ==
    \E i \in DOMAIN log :
        /\ log[i].op = "playThrow"
        /\ tasks[log[i].task].soundFile \in am.loadErrors
        /\ tasks[log[i].task].soundFile \notin am.audioBuffers
        /\ \E p \in SOUND_FILES : p \in am.audioBuffers /\ p \in am.loadedSounds

(* C33: activateZone(z) marks zone z's element active and returns without
   waiting: the step that activates also goes on to playSound, and every
   active mark has a revert timer pending. Every activation is eventually
   followed by the revert: whatever activations have happened, overlapping
   or not, a moment follows at which no zone is marked active and no revert
   is outstanding, so no zone stays active forever. *)
C33_Inv ==
    \A z \in Zones : flash[z].active => flash[z].timers > 0

C33_ActivateStep ==
    \A i \in Added :
        log'[i].op = "activate" =>
            /\ flash'[log'[i].arg].active
            /\ flash'[log'[i].arg].timers > flash[log'[i].arg].timers
            /\ \E j \in Added : j > i /\ log'[j].op = "play" /\ log'[j].task = log'[i].task

C33_AllReverted == \A z \in Zones : ~flash[z].active /\ flash[z].timers = 0

C33_FlashReverts ==
    /\ []C33_Inv
    /\ [][C33_ActivateStep]_vars
    /\ []<>C33_AllReverted

\* two activations of the same zone overlapped: the timer of the first has
\* removed the mark and the timer of the second is still pending
C33_Witness ==
    \E z \in Zones :
        /\ ~flash[z].active /\ flash[z].timers = 1
        /\ Cardinality({i \in DOMAIN log : log[i].op = "activate" /\ log[i].arg = z}) = 2


(* C36: from _startKeyRecording until the recording ends the InputHandler is
   disabled, and once the recording has ended, by Escape or by an accepted
   key and its close delay, the InputHandler is enabled again and the
   recording keydown handler is removed. Stated on the states in which every
   recording has ended (no handler held by the App, no close timer pending,
   popup hidden): the InputHandler is enabled and no recording handler is
   registered; and while the popup is shown the InputHandler is disabled. *)
C36_RecordingOver == rec.current = 0 /\ rec.timers = 0 /\ ~rec.popup

C36_RecordingEnds ==
    /\ rec.popup => ~ih.enabled
    /\ C36_RecordingOver => (ih.enabled /\ RegisteredHandlers(rec) = {})

(* C37: at any time at most one key-recording keydown handler is registered
   on the document, and a single key press rebinds at most one zone, also
   when a recording is started for another zone while an earlier one is
   still active or within its close delay. *)
C37_Inv == Cardinality(RegisteredHandlers(rec)) <= 1

C37_KeyStep ==
    Cardinality({log'[i].arg : i \in {j \in Added : log'[j].op = "updateZoneKey"}}) <= 1

C37_SingleHandler == []C37_Inv /\ [][C37_KeyStep]_vars


(* C39: AudioManager.emit isolates listeners: every listener registered for
   an event is called once for each emit of that event, whether or not a
   listener registered before it throws; what a listener throws is logged
   inside emit and does not reach the emitter, so a faulty listener neither
   makes a sound's load fail (a path that was fetched and decoded is loaded
   and not failed) nor makes preloadAll reject (App.init becomes ready once
   every load has settled). *)
C39_ListenersIsolated ==
    LET EmitCount(event) ==
            Cardinality({i \in DOMAIN log : log[i].op = "emit" /\ log[i].arg = event})
        Caught(event) ==
            Cardinality({i \in DOMAIN log : log[i].op = "consoleError" /\ log[i].arg = event})
        Faulty(event) ==
            {k \in DOMAIN am.listeners : am.listeners[k].event = event /\ am.listeners[k].throws}
    IN  /\ \A k \in DOMAIN am.listeners :
              am.listeners[k].calls = EmitCount(am.listeners[k].event)
        /\ \A event \in ListenerEvents :
              Caught(event) = EmitCount(event) * Cardinality(Faulty(event))
        /\ \A p \in SOUND_FILES :
              /\ p \in am.loadedSounds <=> load[p] = "loaded"
              /\ p \in am.loadErrors <=> load[p] = "failed"
        /\ appPc # "failed"
        /\ AllSettled(load) => appPc = "ready"

\* a throwing 'progress' listener is registered ahead of another 'progress'
\* listener; both sounds have loaded, both listeners were called twice, and
\* the application is ready
C39_Witness ==
    /\ Len(am.listeners) = 2
    /\ am.listeners[1].event = "progress" /\ am.listeners[1].throws
    /\ am.listeners[2].event = "progress" /\ ~am.listeners[2].throws
    /\ am.listeners[1].calls = 2 /\ am.listeners[2].calls = 2
    /\ am.loadedSounds = SOUND_FILES /\ am.loadErrors = {}
    /\ appPc = "ready"

====
